---- MODULE Spec2Model ----
(***************************************************************************)
(* A model of the SBCL C runtime (src/runtime): the dynamic binding stack  *)
(* (dynbind.c), the deferred-signal machinery (interrupt.c), the thread    *)
(* registry with stop-the-world (thread.c) and the copying collector's     *)
(* scavenge/transport core (gc-common.c).                                  *)
(*                                                                         *)
(* Each part of the runtime has its own variables and its own              *)
(* specification (SpecBind, ...); a specification leaves the variables of  *)
(* the other parts at their idle values.                                   *)
(***************************************************************************)
EXTENDS Integers, Sequences, FiniteSets, TLC

VARIABLES
    \* ---- dynbind.c: one thread's binding stack ----
    bst,        \* [bsp, stack, val, fault]: BSP, the binding records, symbol values
    bpc,        \* "idle", or "bind_mid": bind_variable interrupted after SetBSP
    bloc,       \* bind_variable's locals while bpc = "bind_mid"
    gframes,    \* history: per live record, the symbol values before its bind
    blast,      \* history: what the last completed operation was and saw

    \* ---- interrupt.c: one thread's deferred-signal machinery ----
    sth,        \* the thread's interrupt state and its interrupt_data record
    sos,        \* signals the OS holds pending for the thread: signal -> siginfo
    sdue,       \* "none", or the check the mutator owes: "pa" / "int"
    strig,      \* current_auto_gc_trigger is set
    sarr,       \* history: per signal, how often its OS handler was entered
    sowed,      \* history: signals deferred in this pseudo-atomic region
    slast,      \* history: the last step of the signal machinery

    \* ---- thread.c: the threads of one Lisp process ----
    th_state,           \* th->state of each struct thread ("NONE": no struct yet)
    th_pid,             \* th->pid
    all_threads,        \* the list all_threads, head first
    all_threads_lock,   \* the spinlock word: 0, or the value its holder put in
    wpc,                \* where each thread is in its own code
    whpc,               \* where each thread is in sig_stop_for_gc_handler
    whfrom,             \* who called the running handler: the OS or run_deferred_handler
    wth,                \* each thread's interrupt state (as sth)
    wsigpend,           \* threads with a SIG_STOP_FOR_GC pending at the OS
    wstopped,           \* threads the OS has suspended (SIGSTOP, until SIGCONT)
    wdue,               \* the check a thread owes after a region or WITHOUT-INTERRUPTS
    wcol,               \* the collector's locals p, old_pid, finished
    wlast,              \* the step just taken

    \* ---- gc-common.c: one collection of the semispace collector ----
    gc,         \* [mem, free, weak_pointers, lose, log]: memory, new_space_free_pointer, ...
    gmem0,      \* history: memory when the collection began
    groots,     \* root words not yet scavenged
    ghere,      \* scavenge_newspace's cursor
    gphase,     \* "roots", "newspace", "done"
    glast,      \* history: the last step of the collection
    \* ---- purify (purify.c) ----
    pur,        \* [mem, read_only_free, static_free, ...]: memory and purify's globals
    plast       \* history: the call of purify, its state before and its result

bindVars == <<bst, bpc, bloc, gframes, blast>>
sigVars == <<sth, sos, sdue, strig, sarr, sowed, slast>>
worldVars == <<th_state, th_pid, all_threads, all_threads_lock, wpc, whpc,
               whfrom, wth, wsigpend, wstopped, wdue, wcol, wlast>>
gcVars == <<gc, gmem0, groots, ghere, gphase, glast>>
purVars == <<pur, plast>>
vars == <<bindVars, sigVars, worldVars, gcVars, purVars>>

(***************************************************************************)
(*                     dynbind.c: the binding stack                        *)
(***************************************************************************)

\* Capacity of the binding stack in records (BINDING_STACK_SIZE in the
\* runtime; the code does no overflow check, the model stops binding there).
MaxDepth == 3
\* Symbols are 1..NumSymbols; 0 is the cleared symbol field of a record.
NumSymbols == 2
\* Symbol values are 0..MaxValue.
MaxValue == 1

Symbols == 1..NumSymbols
Values == 0..MaxValue
NoLoc == [symbol |-> 0, value |-> 0, old_value |-> 0, binding |-> 0]

\* SymbolValue(symbol, thread): the symbol's current value.
SymbolValue(st, symbol) == st.val[symbol]

\* SetSymbolValue(symbol, val, thread).  A store through the cleared symbol
\* (0) is a store through a wild pointer: recorded as a fault.
SetSymbolValue(st, symbol, value) ==
    IF symbol \in DOMAIN st.val
    THEN [st EXCEPT !.val[symbol] = value,
                    !.stores = Append(@, <<symbol, value>>)]
    ELSE [st EXCEPT !.fault = TRUE]

\* GetBSP / SetBSP: the binding stack pointer, counted in records.
GetBSP(st) == st.bsp
SetBSP(st, value) == [st EXCEPT !.bsp = value]

\* bind_variable up to and including SetBSP(binding+1): the record is
\* claimed but not yet written.
bind_variable_claim(st, symbol, value) ==
    LET old_value == SymbolValue(st, symbol)
        binding == GetBSP(st) + 1
    IN [st |-> SetBSP(st, binding),
        loc |-> [symbol |-> symbol, value |-> value,
                 old_value |-> old_value, binding |-> binding]]

\* A bind_variable that forgets the old value and saves the new one.
bind_variable_store_savesNew(st, loc) ==
    SetSymbolValue(
        [st EXCEPT !.stack[loc.binding] =
                       [symbol |-> loc.symbol, value |-> loc.value]],
        loc.symbol, loc.value)

\* The rest of bind_variable: write the record, store the new value.
bind_variable_store(st, loc) ==
    SetSymbolValue(
        [st EXCEPT !.stack[loc.binding] =
                       [symbol |-> loc.symbol, value |-> loc.old_value]],
        loc.symbol, loc.value)

bind_variable(st, symbol, value) ==
    LET r == bind_variable_claim(st, symbol, value)
    IN bind_variable_store(r.st, r.loc)

\* An unbind that pops the record without restoring the symbol.
unbind_noRestore(st) ==
    LET binding == GetBSP(st)
    IN SetBSP([st EXCEPT !.stack[binding].symbol = 0], binding - 1)

unbind(st) ==
    LET binding == GetBSP(st)          \* index of the top record
        symbol == st.stack[binding].symbol
        st1 == SetSymbolValue(st, symbol, st.stack[binding].value)
        st2 == [st1 EXCEPT !.stack[binding].symbol = 0]
    IN SetBSP(st2, binding - 1)

\* The loop of unbind_to_here: binding counts down to target.
RECURSIVE unbind_loop(_, _, _)
unbind_loop(st, target, binding) ==
    IF target < binding
    THEN LET symbol == st.stack[binding].symbol
             st1 == IF symbol # 0
                    THEN [SetSymbolValue(st, symbol, st.stack[binding].value)
                              EXCEPT !.stack[binding].symbol = 0]
                    ELSE st
         IN unbind_loop(st1, target, binding - 1)
    ELSE SetBSP(st, binding)

\* An unbind_to_here that stops one record short of the marker.
unbind_to_here_short(st, target) ==
    IF target < GetBSP(st)
    THEN unbind_loop(st, target + 1, GetBSP(st))
    ELSE unbind_loop(st, target, GetBSP(st))

unbind_to_here(st, target) == unbind_loop(st, target, GetBSP(st))

\* The store log is kept per operation.
Fresh(st) == [st EXCEPT !.stores = <<>>]

BindInit ==
    /\ bst = [bsp |-> 0,
              stack |-> [i \in 1..MaxDepth |-> [symbol |-> 0, value |-> 0]],
              val |-> [s \in Symbols |-> 0],
              stores |-> <<>>,
              fault |-> FALSE]
    /\ bpc = "idle"
    /\ bloc = NoLoc
    /\ gframes = <<>>
    /\ blast = [op |-> "none"]

\* History: a new record's frame remembers the values before the bind, and
\* the frame below it has now had something bound on top of it.
PushFrame(fr, st, s) ==
    LET marked == IF Len(fr) = 0 THEN fr
                  ELSE [fr EXCEPT ![Len(fr)].nested = TRUE]
    IN Append(marked, [symbol |-> s, snap |-> st.val, bsp |-> st.bsp,
                       nested |-> FALSE])

\* The other parts of the runtime are idle while the binding stack runs.
BindOthersIdle == UNCHANGED <<sigVars, worldVars, gcVars, purVars>>

\* bind_variable(s, v), run without interruption (also by a handler that
\* interrupted another bind_variable).
BindVariable(s, v) ==
    /\ BindOthersIdle
    /\ bst.bsp < MaxDepth
    /\ bst' = bind_variable(Fresh(bst), s, v)
    /\ gframes' = PushFrame(gframes, bst, s)
    /\ blast' = [op |-> "bind", symbol |-> s]
    /\ UNCHANGED <<bpc, bloc>>

\* bind_variable(s, v) interrupted by a signal right after SetBSP.
BindVariableBegin(s, v) ==
    /\ BindOthersIdle
    /\ bpc = "idle"
    /\ bst.bsp < MaxDepth
    /\ LET r == bind_variable_claim(Fresh(bst), s, v)
       IN /\ bst' = r.st
          /\ bloc' = r.loc
    /\ bpc' = "bind_mid"
    /\ gframes' = PushFrame(gframes, bst, s)
    /\ blast' = [op |-> "bind_claim", symbol |-> s]

\* The handler has returned (its own bindings are undone): the interrupted
\* bind_variable goes on.
BindVariableEnd ==
    /\ BindOthersIdle
    /\ bpc = "bind_mid"
    /\ bst.bsp = bloc.binding
    /\ bst' = bind_variable_store(Fresh(bst), bloc)
    /\ bpc' = "idle"
    /\ bloc' = NoLoc
    /\ blast' = [op |-> "bind", symbol |-> bloc.symbol]
    /\ UNCHANGED gframes

\* unbind(): pops the top record.  While a bind_variable is interrupted the
\* handler pops only records it pushed itself.
Unbind ==
    /\ BindOthersIdle
    /\ bst.bsp > 0
    /\ bpc = "bind_mid" => bst.bsp > bloc.binding
    /\ bst' = unbind(Fresh(bst))
    /\ gframes' = SubSeq(gframes, 1, Len(gframes) - 1)
    /\ blast' = [op |-> "unbind", pre |-> bst,
                 frame |-> gframes[Len(gframes)]]
    /\ UNCHANGED <<bpc, bloc>>

\* unbind_to_here(m) for a marker m recorded from the BSP and still at or
\* below it.  A handler that unwinds below an interrupted bind_variable
\* abandons it (a non-local exit).
UnbindToHere(m) ==
    /\ BindOthersIdle
    /\ m \in 0..bst.bsp
    /\ bst' = unbind_to_here(Fresh(bst), m)
    /\ gframes' = SubSeq(gframes, 1, m)
    /\ blast' = [op |-> "unbind_to_here", target |-> m, pre |-> bst,
                 frames |-> gframes]
    /\ IF bpc = "bind_mid" /\ m < bloc.binding
       THEN bpc' = "idle" /\ bloc' = NoLoc
       ELSE UNCHANGED <<bpc, bloc>>

NextBind ==
    \/ \E s \in Symbols, v \in Values : BindVariable(s, v)
    \/ \E s \in Symbols, v \in Values : BindVariableBegin(s, v)
    \/ BindVariableEnd
    \/ Unbind
    \/ \E m \in 0..MaxDepth : UnbindToHere(m)


\* ---- the three operations statement by statement -------------------------
\* A pointer into the binding stack is modelled by the number c of records
\* below it; the record it points at is stack[c + 1].
RecordAt(c) == c + 1

StepLoc(op, symbol, value, target, expect) ==
    [op |-> op, symbol |-> symbol, value |-> value, old_value |-> 0,
     binding |-> 0, target |-> target, expect |-> expect, at |-> "none"]

\* A bind_variable that writes the record first and moves the binding stack
\* pointer last.
bind_variable_step_lateSetBSP(st, loc, pc) ==
    CASE pc = "bv_old_value" ->
           [st |-> st, pc |-> "bv_binding",
            loc |-> [loc EXCEPT !.old_value = SymbolValue(st, loc.symbol)]]
      [] pc = "bv_binding" ->
           [st |-> st, pc |-> "bv_SetBSP",
            loc |-> [loc EXCEPT !.binding = GetBSP(st)]]
      [] pc = "bv_SetBSP" ->
           [st |-> [st EXCEPT !.stack[RecordAt(loc.binding)].value = loc.old_value],
            pc |-> "bv_value", loc |-> loc]
      [] pc = "bv_value" ->
           [st |-> [st EXCEPT !.stack[RecordAt(loc.binding)].symbol = loc.symbol],
            pc |-> "bv_symbol", loc |-> loc]
      [] pc = "bv_symbol" ->
           [st |-> SetBSP(st, loc.binding + 1), pc |-> "bv_SetSymbolValue",
            loc |-> loc]
      [] pc = "bv_SetSymbolValue" ->
           [st |-> SetSymbolValue(st, loc.symbol, loc.value), pc |-> "idle",
            loc |-> loc]

\* One statement of bind_variable; pc names the statement to run.
bind_variable_step(st, loc, pc) ==
    CASE pc = "bv_old_value" ->        \* old_value = SymbolValue(symbol,thread)
           [st |-> st, pc |-> "bv_binding",
            loc |-> [loc EXCEPT !.old_value = SymbolValue(st, loc.symbol)]]
      [] pc = "bv_binding" ->          \* binding = GetBSP()
           [st |-> st, pc |-> "bv_SetBSP",
            loc |-> [loc EXCEPT !.binding = GetBSP(st)]]
      [] pc = "bv_SetBSP" ->           \* SetBSP(binding+1)
           [st |-> SetBSP(st, loc.binding + 1), pc |-> "bv_value", loc |-> loc]
      [] pc = "bv_value" ->            \* binding->value = old_value
           [st |-> [st EXCEPT !.stack[RecordAt(loc.binding)].value = loc.old_value],
            pc |-> "bv_symbol", loc |-> loc]
      [] pc = "bv_symbol" ->           \* binding->symbol = symbol
           [st |-> [st EXCEPT !.stack[RecordAt(loc.binding)].symbol = loc.symbol],
            pc |-> "bv_SetSymbolValue", loc |-> loc]
      [] pc = "bv_SetSymbolValue" ->   \* SetSymbolValue(symbol, value,thread)
           [st |-> SetSymbolValue(st, loc.symbol, loc.value), pc |-> "idle",
            loc |-> loc]

\* One statement of unbind.
unbind_step(st, loc, pc) ==
    CASE pc = "ub_binding" ->          \* binding = GetBSP() - 1
           [st |-> st, pc |-> "ub_symbol",
            loc |-> [loc EXCEPT !.binding = GetBSP(st) - 1]]
      [] pc = "ub_symbol" ->           \* symbol = binding->symbol
           [st |-> st, pc |-> "ub_SetSymbolValue",
            loc |-> [loc EXCEPT !.symbol = st.stack[RecordAt(loc.binding)].symbol]]
      [] pc = "ub_SetSymbolValue" ->   \* SetSymbolValue(symbol, binding->value,thread)
           [st |-> SetSymbolValue(st, loc.symbol,
                                  st.stack[RecordAt(loc.binding)].value),
            pc |-> "ub_clear", loc |-> loc]
      [] pc = "ub_clear" ->            \* binding->symbol = 0
           [st |-> [st EXCEPT !.stack[RecordAt(loc.binding)].symbol = 0],
            pc |-> "ub_SetBSP", loc |-> loc]
      [] pc = "ub_SetBSP" ->           \* SetBSP(binding)
           [st |-> SetBSP(st, loc.binding), pc |-> "idle", loc |-> loc]

\* One statement of unbind_to_here.
unbind_to_here_step(st, loc, pc) ==
    CASE pc = "uth_binding" ->         \* binding = GetBSP()
           [st |-> st, pc |-> "uth_test",
            loc |-> [loc EXCEPT !.binding = GetBSP(st)]]
      [] pc = "uth_test" ->            \* while (target < binding) { binding--;
           IF loc.target < loc.binding
           THEN [st |-> st, pc |-> "uth_symbol",
                 loc |-> [loc EXCEPT !.binding = @ - 1]]
           ELSE [st |-> st, pc |-> "uth_SetBSP", loc |-> loc]
      [] pc = "uth_symbol" ->          \* symbol = binding->symbol; if (symbol)
           LET symbol == st.stack[RecordAt(loc.binding)].symbol
           IN [st |-> st, loc |-> [loc EXCEPT !.symbol = symbol],
               pc |-> IF symbol # 0 THEN "uth_SetSymbolValue" ELSE "uth_test"]
      [] pc = "uth_SetSymbolValue" ->  \* SetSymbolValue(symbol, binding->value,thread)
           [st |-> SetSymbolValue(st, loc.symbol,
                                  st.stack[RecordAt(loc.binding)].value),
            pc |-> "uth_clear", loc |-> loc]
      [] pc = "uth_clear" ->           \* binding->symbol = 0
           [st |-> [st EXCEPT !.stack[RecordAt(loc.binding)].symbol = 0],
            pc |-> "uth_test", loc |-> loc]
      [] pc = "uth_SetBSP" ->          \* SetBSP(binding)
           [st |-> SetBSP(st, loc.binding), pc |-> "idle", loc |-> loc]

\* The operation at statement bpc runs that statement; when it was the last
\* one, the outcome is recorded next to the outcome of the same call run
\* without interruption.
StepTaken(r) ==
    /\ bst' = Fresh(r.st)
    /\ bpc' = r.pc
    /\ bloc' = IF r.pc = "idle" THEN NoLoc ELSE r.loc
    /\ blast' = IF r.pc = "idle"
                THEN [op |-> r.loc.op, got |-> Fresh(r.st),
                      expect |-> r.loc.expect, at |-> r.loc.at]
                ELSE [op |-> "step"]
    /\ UNCHANGED gframes

\* No handler is running: the thread calls bind_variable(s, v), or goes on
\* with the bind_variable it is in.
BindVariableStep(s, v) ==
    /\ BindOthersIdle
    /\ gframes = <<>>
    /\ \/ /\ bpc = "idle"
          /\ bst.bsp < MaxDepth
          /\ StepTaken(bind_variable_step(
                 bst, StepLoc("bind_variable", s, v, 0,
                              Fresh(bind_variable(bst, s, v))),
                 "bv_old_value"))
       \/ /\ bpc # "idle"
          /\ bloc.op = "bind_variable"
          /\ bloc.symbol = s /\ bloc.value = v
          /\ StepTaken(bind_variable_step(bst, bloc, bpc))

UnbindStep ==
    /\ BindOthersIdle
    /\ gframes = <<>>
    /\ \/ /\ bpc = "idle"
          /\ bst.bsp > 0
          /\ StepTaken(unbind_step(
                 bst, StepLoc("unbind", 0, 0, 0, Fresh(unbind(bst))),
                 "ub_binding"))
       \/ /\ bpc # "idle"
          /\ bloc.op = "unbind"
          /\ StepTaken(unbind_step(bst, bloc, bpc))

UnbindToHereStep(m) ==
    /\ BindOthersIdle
    /\ gframes = <<>>
    /\ \/ /\ bpc = "idle"
          /\ m \in 0..bst.bsp
          /\ StepTaken(unbind_to_here_step(
                 bst, StepLoc("unbind_to_here", 0, 0, m,
                              Fresh(unbind_to_here(bst, m))),
                 "uth_binding"))
       \/ /\ bpc # "idle"
          /\ bloc.op = "unbind_to_here"
          /\ bloc.target = m
          /\ StepTaken(unbind_to_here_step(bst, bloc, bpc))

\* A signal arrives between two statements (or between two calls): its
\* handler binds a special variable on the same thread ...
SignalHandlerBinds(s, v) ==
    /\ BindOthersIdle
    /\ gframes = <<>>
    /\ bst.bsp < MaxDepth
    /\ bst' = Fresh(bind_variable(bst, s, v))
    /\ gframes' = <<[kind |-> "bind", symbol |-> s, bsp |-> bst.bsp]>>
    /\ bloc' = IF bpc = "idle" THEN bloc ELSE [bloc EXCEPT !.at = bpc]
    /\ blast' = [op |-> "handler_bind"]
    /\ UNCHANGED bpc

\* ... and unbinds it before it returns to the interrupted statement.
SignalHandlerUnbinds ==
    /\ BindOthersIdle
    /\ gframes # <<>>
    /\ bst' = Fresh(unbind(bst))
    /\ gframes' = <<>>
    /\ blast' = [op |-> "handler_unbind"]
    /\ UNCHANGED <<bpc, bloc>>

NextStep ==
    \/ \E s \in Symbols, v \in Values : BindVariableStep(s, v)
    \/ UnbindStep
    \/ \E m \in 0..MaxDepth : UnbindToHereStep(m)
    \/ \E s \in Symbols, v \in Values : SignalHandlerBinds(s, v)
    \/ SignalHandlerUnbinds


(***************************************************************************)
(*               interrupt.c: deferring and running handlers               *)
(*                                                                         *)
(* One thread running Lisp code (foreign_function_call_active is 0), in    *)
(* the build without LISP_FEATURE_GENCGC, where the memory-fault GC        *)
(* trigger (interrupt_maybe_gc) is compiled in.  An OS handler runs to its *)
(* return in one step; the Lisp-level handler it may call is counted, not  *)
(* modelled.                                                               *)
(***************************************************************************)

\* How often each signal may be raised in one behaviour.
MaxArrivals == 2

\* sigaddset_blockable: the signals it adds to a set.
BlockableSignals ==
    {"SIGHUP", "SIGINT", "SIGQUIT", "SIGPIPE", "SIGALRM", "SIGURG", "SIGFPE",
     "SIGTSTP", "SIGCHLD", "SIGIO", "SIGXCPU", "SIGXFSZ", "SIGVTALRM",
     "SIGPROF", "SIGWINCH", "SIGUSR1", "SIGUSR2",
     "SIG_STOP_FOR_GC", "SIG_INTERRUPT_THREAD"}
\* A sigaddset_blockable that leaves the floating-point error out.
sigaddset_blockable_withoutFPE(set) == set \cup (BlockableSignals \ {"SIGFPE"})
sigaddset_blockable(set) == set \cup BlockableSignals

\* The signals raised in the model: two blockable ones whose Lisp-level
\* handlers went in through install_handler (so their OS handler is
\* maybe_now_maybe_later), and the memory fault of the GC trigger.
UserSignals == {"SIGINT", "SIGALRM"}
SIG_MEMORY_FAULT == "SIGSEGV"
CountedSignals == UserSignals \cup {SIG_MEMORY_FAULT}
\* siginfo payloads, so that a stored siginfo can be told from another.
Infos == {"i1", "i2"}
NoInfo == "none"
NULL == "null"

\* install_handler: a blockable signal with a Lisp handler gets
\* maybe_now_maybe_later as its OS handler.
install_handler(signal) ==
    IF signal \in sigaddset_blockable({})
    THEN "maybe_now_maybe_later" ELSE "interrupt_handle_now_handler"

\* The thread's interrupt state: the special variables INTERRUPTS_ENABLED,
\* INTERRUPT_PENDING, FREE_INTERRUPT_CONTEXT_INDEX, the pseudo-atomic flags
\* of struct thread, struct interrupt_data's pending record, and the signal
\* mask of the context the handler was entered with (the thread's own mask
\* again once the handler returns).
ThreadInit ==
    [ienabled |-> TRUE, ipending |-> FALSE,
     pa |-> FALSE, paint |-> FALSE,
     pending_handler |-> NULL, pending_signal |-> "none",
     pending_info |-> NoInfo, pending_mask |-> {},
     mask |-> {},
     fici |-> 0,
     ran |-> [g \in CountedSignals |-> 0],
     fault |-> FALSE]

\* store_signal_data_for_later without the handler.
store_signal_data_for_later_noHandler(d, handler, signal, info, hasctx) ==
    [d EXCEPT !.pending_signal = signal,
              !.pending_info = IF info # NoInfo THEN info ELSE @,
              !.pending_mask = d.mask,
              !.mask = sigaddset_blockable(d.mask)]

\* store_signal_data_for_later(data, handler, signal, info, context).  With a
\* context, the interrupted mask is saved and the context's mask gets the
\* blockable signals; without one (no caller in these sources), sigprocmask
\* does both on the thread's own mask.
store_signal_data_for_later(d, handler, signal, info, hasctx) ==
    [d EXCEPT !.pending_handler = handler,
              !.pending_signal = signal,
              !.pending_info = IF info # NoInfo THEN info ELSE @,
              !.pending_mask = d.mask,
              !.mask = sigaddset_blockable(d.mask)]

\* A maybe_defer_handler without the pseudo-atomic test.
maybe_defer_handler_noPseudoAtomic(d, handler, signal, info, hasctx) ==
    IF ~d.ienabled
    THEN [deferred |-> TRUE, why |-> "disabled",
          d |-> [store_signal_data_for_later(d, handler, signal, info, hasctx)
                     EXCEPT !.ipending = TRUE]]
    ELSE [deferred |-> FALSE, why |-> "no", d |-> d]

\* maybe_defer_handler(handler, data, signal, info, context)
maybe_defer_handler(d, handler, signal, info, hasctx) ==
    IF ~d.ienabled      \* SymbolValue(INTERRUPTS_ENABLED,thread) == NIL
    THEN [deferred |-> TRUE, why |-> "disabled",
          d |-> [store_signal_data_for_later(d, handler, signal, info, hasctx)
                     EXCEPT !.ipending = TRUE]]
    ELSE IF d.pa        \* arch_pseudo_atomic_atomic(context)
    THEN [deferred |-> TRUE, why |-> "pa",
          d |-> [store_signal_data_for_later(d, handler, signal, info, hasctx)
                     EXCEPT !.paint = TRUE]]
    ELSE [deferred |-> FALSE, why |-> "no", d |-> d]

\* fake_foreign_function_call / undo_fake_foreign_function_call: the dynamic
\* binding of FREE_INTERRUPT_CONTEXT_INDEX (one up, and back).
fake_foreign_function_call(d) == [d EXCEPT !.fici = @ + 1]
undo_fake_foreign_function_call(d) == [d EXCEPT !.fici = @ - 1]

\* interrupt_handle_now: runs the Lisp-level handler of the signal (every
\* signal raised here has one: neither SIG_IGN nor SIG_DFL).
interrupt_handle_now(d, signal) ==
    LET d1 == fake_foreign_function_call(d)
        d2 == [d1 EXCEPT !.ran[signal] = @ + 1]       \* funcall3(handler.lisp,..)
    IN undo_fake_foreign_function_call(d2)

\* interrupt_maybe_gc_int: calls SUB-GC.
interrupt_maybe_gc_int(d, signal) ==
    LET d1 == fake_foreign_function_call(d)
        d2 == [d1 EXCEPT !.ran[SIG_MEMORY_FAULT] = @ + 1]  \* funcall0(SUB_GC)
    IN undo_fake_foreign_function_call(d2)

\* run_deferred_handler: calls data->pending_handler, then clears it.  A call
\* through the null pointer is recorded as a fault.
run_deferred_handler(d) ==
    LET called ==
            CASE d.pending_handler = "interrupt_handle_now" ->
                     interrupt_handle_now(d, d.pending_signal)
              [] d.pending_handler = "interrupt_maybe_gc_int" ->
                     interrupt_maybe_gc_int(d, d.pending_signal)
              [] OTHER -> [d EXCEPT !.fault = TRUE]
    IN [called EXCEPT !.pending_handler = NULL]

\* An interrupt_handle_pending that leaves INTERRUPT_PENDING set.
interrupt_handle_pending_restore_keepsPending(d) ==
    [d EXCEPT !.mask = d.pending_mask,
              !.pending_mask = {}]

\* interrupt_handle_pending(context), up to its call of
\* run_deferred_handler: the context gets the saved mask back.
interrupt_handle_pending_restore(d) ==
    [d EXCEPT !.ipending = FALSE,
              !.mask = d.pending_mask,
              !.pending_mask = {}]

\* interrupt_handle_pending(context)
interrupt_handle_pending(d) ==
    run_deferred_handler(interrupt_handle_pending_restore(d))

\* maybe_now_maybe_later(signal, info, context)
maybe_now_maybe_later(d, signal, info) ==
    LET r == maybe_defer_handler(d, "interrupt_handle_now", signal, info, TRUE)
    IN IF r.deferred THEN r
       ELSE [r EXCEPT !.d = interrupt_handle_now(d, signal)]

\* interrupt_maybe_gc(signal, info, context), entered with the GC trigger hit
\* and not in foreign code (clear_auto_gc_trigger is the caller's strig').
interrupt_maybe_gc(d, signal, info) ==
    LET r == maybe_defer_handler(d, "interrupt_maybe_gc_int", signal, info, TRUE)
    IN IF r.deferred THEN r
       ELSE [r EXCEPT !.d = interrupt_maybe_gc_int(d, signal)]

SigInit ==
    /\ sth = ThreadInit
    /\ sos = [g \in UserSignals |-> NoInfo]
    /\ sdue = "none"
    /\ strig = TRUE
    /\ sarr = [g \in CountedSignals |-> 0]
    /\ sowed = {}
    /\ slast = [op |-> "none"]

SigOthersIdle == UNCHANGED <<bindVars, worldVars, gcVars, purVars>>

\* Another process (or a timer) raises a blockable signal with some siginfo;
\* a standard signal already pending is not queued twice.
RaiseSignal(g, info) ==
    /\ SigOthersIdle
    /\ sos[g] = NoInfo
    /\ sarr[g] + 1 <= MaxArrivals
    /\ sos' = [sos EXCEPT ![g] = info]
    /\ UNCHANGED <<sth, sdue, strig, sarr, sowed, slast>>

\* The OS delivers a pending signal the thread's mask lets through: its
\* handler maybe_now_maybe_later runs and returns.
DeliverSignal(g) ==
    /\ SigOthersIdle
    /\ sos[g] # NoInfo
    /\ g \notin sth.mask
    /\ LET r == maybe_now_maybe_later(sth, g, sos[g])
       IN /\ sth' = r.d
          /\ slast' = [op |-> IF r.deferred THEN "deferred" ELSE "handled",
                       why |-> r.why, handler |-> "interrupt_handle_now",
                       signal |-> g, info |-> sos[g],
                       mask |-> sth.mask, before |-> sth]
          /\ sowed' = IF r.deferred /\ r.why = "pa" THEN sowed \cup {g}
                      ELSE sowed
    /\ sos' = [sos EXCEPT ![g] = NoInfo]
    /\ sarr' = [sarr EXCEPT ![g] = @ + 1]
    /\ UNCHANGED <<sdue, strig>>

\* The mutator's allocation runs into the protected area beyond
\* current_auto_gc_trigger: the memory-fault handler calls interrupt_maybe_gc.
GcTriggerFault(info) ==
    /\ SigOthersIdle
    /\ strig
    /\ sdue = "none"
    /\ strig' = FALSE                              \* clear_auto_gc_trigger()
    /\ LET r == interrupt_maybe_gc(sth, SIG_MEMORY_FAULT, info)
       IN /\ sth' = r.d
          /\ slast' = [op |-> IF r.deferred THEN "deferred" ELSE "handled",
                       why |-> r.why, handler |-> "interrupt_maybe_gc_int",
                       signal |-> SIG_MEMORY_FAULT, info |-> info,
                       mask |-> sth.mask, before |-> sth]
    /\ sarr' = [sarr EXCEPT ![SIG_MEMORY_FAULT] = @ + 1]
    /\ UNCHANGED <<sos, sdue, sowed>>

\* The mutator enters a pseudo-atomic region (the x86 sequence clears the
\* interrupted flag and sets the atomic flag).
EnterPseudoAtomic ==
    /\ SigOthersIdle
    /\ sdue = "none"
    /\ ~sth.pa
    /\ sth' = [sth EXCEPT !.pa = TRUE, !.paint = FALSE]
    /\ sowed' = {}
    /\ slast' = [op |-> "enter_pa"]
    /\ UNCHANGED <<sos, sdue, strig, sarr>>

\* ... and leaves it: the atomic flag is cleared, the check is owed.
LeavePseudoAtomic ==
    /\ SigOthersIdle
    /\ sdue = "none"
    /\ sth.pa
    /\ sth' = [sth EXCEPT !.pa = FALSE]
    /\ sdue' = "pa"
    /\ slast' = [op |-> "leave_pa"]
    /\ UNCHANGED <<sos, strig, sarr, sowed>>

\* The check at the end of the region: if the interrupted flag is set the
\* pending-interrupt trap runs interrupt_handle_pending.
CheckPseudoAtomicInterrupted ==
    /\ SigOthersIdle
    /\ sdue = "pa"
    /\ sth' = IF sth.paint THEN interrupt_handle_pending(sth) ELSE sth
    /\ sdue' = "none"
    /\ slast' = [op |-> "pa_exit_done", trapped |-> sth.paint,
                 owed |-> sowed, before |-> sth]
    /\ sowed' = {}
    /\ UNCHANGED <<sos, strig, sarr>>

\* WITHOUT-INTERRUPTS: the mutator binds INTERRUPTS_ENABLED to NIL ...
DisableInterrupts ==
    /\ SigOthersIdle
    /\ sdue = "none"
    /\ sth.ienabled
    /\ ~sth.pa
    /\ sth' = [sth EXCEPT !.ienabled = FALSE]
    /\ slast' = [op |-> "disable"]
    /\ UNCHANGED <<sos, sdue, strig, sarr, sowed>>

\* ... and unbinds it; the check of INTERRUPT_PENDING is owed.
EnableInterrupts ==
    /\ SigOthersIdle
    /\ sdue = "none"
    /\ ~sth.ienabled
    /\ ~sth.pa
    /\ sth' = [sth EXCEPT !.ienabled = TRUE]
    /\ sdue' = "int"
    /\ slast' = [op |-> "enable"]
    /\ UNCHANGED <<sos, strig, sarr, sowed>>

\* The check after interrupts are enabled again: if INTERRUPT_PENDING is set
\* the pending-interrupt trap runs interrupt_handle_pending.
CheckInterruptPending ==
    /\ SigOthersIdle
    /\ sdue = "int"
    /\ sth' = IF sth.ipending THEN interrupt_handle_pending(sth) ELSE sth
    /\ sdue' = "none"
    /\ slast' = [op |-> "int_enable_done", trapped |-> sth.ipending,
                 before |-> sth]
    /\ UNCHANGED <<sos, strig, sarr, sowed>>

NextSig ==
    \/ \E g \in UserSignals, info \in Infos : RaiseSignal(g, info)
    \/ \E g \in UserSignals : DeliverSignal(g)
    \/ \E info \in Infos : GcTriggerFault(info)
    \/ EnterPseudoAtomic
    \/ LeavePseudoAtomic
    \/ CheckPseudoAtomicInterrupted
    \/ DisableInterrupts
    \/ EnableInterrupts
    \/ CheckInterruptPending

(***************************************************************************)
(*            thread.c: thread creation and stopping the world             *)
(*                                                                         *)
(* The Linux SB_THREAD build.  Thread 1 is the thread that collects,       *)
(* thread 2 a peer running Lisp code that may call create_thread once, and *)
(* thread 3 the thread it creates.  A thread's pid is its number.  Every   *)
(* read or write of shared memory made without all_threads_lock is a step  *)
(* of its own.  countdown_to_gc, decremented by the handler and read       *)
(* nowhere in these sources, is left out.                                  *)
(***************************************************************************)

Threads == {1, 2, 3}
Collector == 1
Creator == 2
Created == 3
Peers == Threads \ {Collector}
\* The peers whose Lisp code enters pseudo-atomic regions and
\* WITHOUT-INTERRUPTS in the model; the created thread's function does not.
LispPeers == {Creator}

STATE_RUNNING == "RUNNING"
STATE_STOPPING == "STOPPING"
STATE_STOPPED == "STOPPED"
NoThread == "NONE"
SIG_STOP_FOR_GC == "SIG_STOP_FOR_GC"

\* The stop signals sent to one thread during one call of gc_stop_the_world
\* are counted up to this number.
MaxSent == 2
NoneSent == [t \in Threads |-> 0]

NoCol == [rest |-> <<>>, old_pid |-> 0, finished |-> FALSE, sent |-> NoneSent]

WorldInit ==
    /\ th_state = [t \in Threads |-> IF t = Created THEN NoThread ELSE STATE_RUNNING]
    /\ th_pid = [t \in Threads |-> IF t = Created THEN 0 ELSE t]
    /\ all_threads = <<Creator, Collector>>
    /\ all_threads_lock = 0
    /\ wpc = [t \in Threads |-> IF t = Created THEN "unborn" ELSE "lisp"]
    /\ whpc = [t \in Threads |-> "none"]
    /\ whfrom = [t \in Threads |-> "none"]
    /\ wth = [t \in Threads |-> ThreadInit]
    /\ wsigpend = {}
    /\ wstopped = {}
    /\ wdue = [t \in Threads |-> "none"]
    /\ wcol = NoCol
    /\ wlast = [op |-> "none"]

WorldOthersIdle == UNCHANGED <<bindVars, sigVars, gcVars, purVars>>

\* get_spinlock(word, value): the cmpxchg succeeds when the word is 0.
get_spinlock(word, value) == [ok |-> word = 0, word |-> IF word = 0 THEN value ELSE word]
\* release_spinlock(word)
release_spinlock(word) == 0

\* kill(pid,sig): the threads the OS sends the signal to.  Every thread is
\* a process made by clone(), with an OS pid of its own (here its number) in
\* the process group of the runtime; th->pid holds that pid once link_thread
\* has stored it and 0 until then, and kill with pid 0 sends the signal to
\* every process of the caller's process group.
KillTargets(pid) ==
    IF pid = 0 THEN {t \in Threads : wpc[t] # "unborn"}
    ELSE {t \in Threads : th_pid[t] = pid}

\* The thread is scheduled by the OS and not inside a signal handler.
OnCpu(t) == wpc[t] # "unborn" /\ t \notin wstopped
InOwnCode(t) == OnCpu(t) /\ whpc[t] = "none"

\* ---- gc_stop_the_world, called by the collector -------------------------

\* get_spinlock(&all_threads_lock,th->pid); p=all_threads, old_pid=p->pid
StopTheWorldLock ==
    /\ WorldOthersIdle
    /\ OnCpu(Collector)
    /\ wpc[Collector] \in {"lisp", "stw_again"}
    /\ get_spinlock(all_threads_lock, th_pid[Collector]).ok
    /\ all_threads_lock' = get_spinlock(all_threads_lock, th_pid[Collector]).word
    /\ wcol' = [rest |-> all_threads, old_pid |-> th_pid[Head(all_threads)],
                finished |-> FALSE,
                sent |-> IF wpc[Collector] = "lisp" THEN NoneSent ELSE wcol.sent]
    /\ wpc' = [wpc EXCEPT ![Collector] = "stw_signal"]
    /\ wlast' = [op |-> "step"]
    /\ UNCHANGED <<th_state, th_pid, all_threads, whpc, whfrom, wth, wsigpend,
                   wstopped, wdue>>

\* One round of the signalling loop: a RUNNING peer becomes STOPPING and
\* kill(p->pid,SIG_STOP_FOR_GC) is called; the caller and threads in any
\* other state are passed over.  A signal sent to the caller itself (pid 0)
\* stays pending: what the caller, inside SUB-GC, does with it is the Lisp
\* side's business.
StopTheWorldSignal ==
    /\ WorldOthersIdle
    /\ OnCpu(Collector)
    /\ wpc[Collector] = "stw_signal"
    /\ wcol.rest # <<>>
    /\ LET p == Head(wcol.rest)
           skip == p = Collector \/ th_state[p] # STATE_RUNNING
           to == IF skip THEN {} ELSE KillTargets(th_pid[p])
       IN /\ th_state' = IF skip THEN th_state
                         ELSE [th_state EXCEPT ![p] = STATE_STOPPING]
          /\ wsigpend' = wsigpend \cup to
          /\ wcol' = [wcol EXCEPT
                         !.rest = Tail(@),
                         !.sent = [t \in Threads |->
                                     IF t \in to /\ @[t] < MaxSent
                                     THEN @[t] + 1 ELSE @[t]]]
          /\ wlast' = [op |-> "step"]
    /\ UNCHANGED <<th_pid, all_threads, all_threads_lock, wpc, whpc, whfrom,
                   wth, wstopped, wdue>>

\* release_spinlock(&all_threads_lock); sched_yield();
StopTheWorldRelease ==
    /\ WorldOthersIdle
    /\ OnCpu(Collector)
    /\ wpc[Collector] = "stw_signal"
    /\ wcol.rest = <<>>
    /\ all_threads_lock' = release_spinlock(all_threads_lock)
    /\ wpc' = [wpc EXCEPT ![Collector] = "stw_check"]
    /\ wlast' = [op |-> "step"]
    /\ UNCHANGED <<th_state, th_pid, all_threads, whpc, whfrom, wth, wsigpend,
                   wstopped, wdue, wcol>>

\* if(old_pid==all_threads->pid), read without the lock
StopTheWorldCheckHead ==
    /\ WorldOthersIdle
    /\ OnCpu(Collector)
    /\ wpc[Collector] = "stw_check"
    /\ wpc' = [wpc EXCEPT ![Collector] =
                   IF wcol.old_pid = th_pid[Head(all_threads)]
                   THEN "stw_scan_begin" ELSE "stw_again"]
    /\ wlast' = [op |-> "step"]
    /\ UNCHANGED <<th_state, th_pid, all_threads, all_threads_lock, whpc,
                   whfrom, wth, wsigpend, wstopped, wdue, wcol>>

\* finished=1; for_each_thread(p): p=all_threads, read without the lock
StopTheWorldScanBegin ==
    /\ WorldOthersIdle
    /\ OnCpu(Collector)
    /\ wpc[Collector] = "stw_scan_begin"
    /\ wcol' = [wcol EXCEPT !.rest = all_threads, !.finished = TRUE]
    /\ wpc' = [wpc EXCEPT ![Collector] = "stw_scan"]
    /\ wlast' = [op |-> "step"]
    /\ UNCHANGED <<th_state, th_pid, all_threads, all_threads_lock, whpc,
                   whfrom, wth, wsigpend, wstopped, wdue>>

\* finished = finished && ((p==th) || (p->state==STATE_STOPPED)); p=p->next
StopTheWorldScan ==
    /\ WorldOthersIdle
    /\ OnCpu(Collector)
    /\ wpc[Collector] = "stw_scan"
    /\ wcol.rest # <<>>
    /\ LET p == Head(wcol.rest)
       IN wcol' = [wcol EXCEPT
                      !.rest = Tail(@),
                      !.finished = @ /\ (p = Collector \/ th_state[p] = STATE_STOPPED)]
    /\ wlast' = [op |-> "step"]
    /\ UNCHANGED <<th_state, th_pid, all_threads, all_threads_lock, wpc, whpc,
                   whfrom, wth, wsigpend, wstopped, wdue>>

\* while(!finished): go round again, or return to the caller, which collects.
StopTheWorldDone ==
    /\ WorldOthersIdle
    /\ OnCpu(Collector)
    /\ wpc[Collector] = "stw_scan"
    /\ wcol.rest = <<>>
    /\ wpc' = [wpc EXCEPT ![Collector] =
                   IF wcol.finished THEN "collecting" ELSE "stw_again"]
    /\ wlast' = [op |-> IF wcol.finished THEN "stw_return" ELSE "stw_round"]
    /\ UNCHANGED <<th_state, th_pid, all_threads, all_threads_lock, whpc,
                   whfrom, wth, wsigpend, wstopped, wdue, wcol>>

\* ---- gc_start_the_world, called by the collector ------------------------

\* get_spinlock(&all_threads_lock,th->pid); p=all_threads
StartTheWorldLock ==
    /\ WorldOthersIdle
    /\ OnCpu(Collector)
    /\ wpc[Collector] = "collecting"
    /\ get_spinlock(all_threads_lock, th_pid[Collector]).ok
    /\ all_threads_lock' = get_spinlock(all_threads_lock, th_pid[Collector]).word
    /\ wcol' = [NoCol EXCEPT !.rest = all_threads]
    /\ wpc' = [wpc EXCEPT ![Collector] = "gsw_loop"]
    /\ wlast' = [op |-> "step"]
    /\ UNCHANGED <<th_state, th_pid, all_threads, whpc, whfrom, wth, wsigpend,
                   wstopped, wdue>>

\* p->state=STATE_RUNNING; kill(p->pid,SIGCONT); for every thread but the
\* caller.  A kill to pid 0 (a thread linked but without its pid yet) goes to
\* the caller's process group: every thread of the process.
StartTheWorldLoop ==
    /\ WorldOthersIdle
    /\ OnCpu(Collector)
    /\ wpc[Collector] = "gsw_loop"
    /\ wcol.rest # <<>>
    /\ LET p == Head(wcol.rest)
       IN /\ th_state' = IF p = Collector THEN th_state
                         ELSE [th_state EXCEPT ![p] = STATE_RUNNING]
          /\ wstopped' = IF p = Collector THEN wstopped
                         ELSE wstopped \ KillTargets(th_pid[p])
          /\ wlast' = [op |-> "step"]
    /\ wcol' = [wcol EXCEPT !.rest = Tail(@)]
    /\ UNCHANGED <<th_pid, all_threads, all_threads_lock, wpc, whpc, whfrom,
                   wth, wsigpend, wdue>>

\* release_spinlock(&all_threads_lock)
StartTheWorldRelease ==
    /\ WorldOthersIdle
    /\ OnCpu(Collector)
    /\ wpc[Collector] = "gsw_loop"
    /\ wcol.rest = <<>>
    /\ all_threads_lock' = release_spinlock(all_threads_lock)
    /\ wpc' = [wpc EXCEPT ![Collector] = "lisp"]
    /\ wcol' = NoCol
    /\ wlast' = [op |-> "step"]
    /\ UNCHANGED <<th_state, th_pid, all_threads, whpc, whfrom, wth, wsigpend,
                   wstopped, wdue>>

\* ---- create_thread, called by the creator ------------------------------

\* create_thread_struct and clone(): the new struct thread is STOPPED with
\* pid 0, its interrupt_data a copy of the caller's; the child starts in
\* new_thread_trampoline with the caller's signal mask.
CreateThread ==
    /\ WorldOthersIdle
    /\ InOwnCode(Creator)
    /\ wpc[Creator] = "lisp"
    /\ wdue[Creator] = "none"
    /\ th_state[Created] = NoThread
    /\ th_state' = [th_state EXCEPT ![Created] = STATE_STOPPED]
    /\ th_pid' = [th_pid EXCEPT ![Created] = 0]
    /\ wth' = [wth EXCEPT ![Created] =
                  [ThreadInit EXCEPT
                      !.pending_handler = wth[Creator].pending_handler,
                      !.pending_signal = wth[Creator].pending_signal,
                      !.pending_info = wth[Creator].pending_info,
                      !.pending_mask = wth[Creator].pending_mask,
                      !.mask = wth[Creator].mask]]
    /\ wpc' = [wpc EXCEPT ![Creator] = "link_lock", ![Created] = "trampoline"]
    /\ wlast' = [op |-> "step"]
    /\ UNCHANGED <<all_threads, all_threads_lock, whpc, whfrom, wsigpend,
                   wstopped, wdue, wcol>>

\* link_thread: get_spinlock(&all_threads_lock,kid_pid)
LinkThreadLock ==
    /\ WorldOthersIdle
    /\ InOwnCode(Creator)
    /\ wpc[Creator] = "link_lock"
    /\ get_spinlock(all_threads_lock, Created).ok
    /\ all_threads_lock' = get_spinlock(all_threads_lock, Created).word
    /\ wpc' = [wpc EXCEPT ![Creator] = "link_push"]
    /\ wlast' = [op |-> "step"]
    /\ UNCHANGED <<th_state, th_pid, all_threads, whpc, whfrom, wth, wsigpend,
                   wstopped, wdue, wcol>>

\* link_thread: th->next=all_threads; all_threads=th;
LinkThreadPush ==
    /\ WorldOthersIdle
    /\ InOwnCode(Creator)
    /\ wpc[Creator] = "link_push"
    /\ all_threads' = <<Created>> \o all_threads
    /\ wpc' = [wpc EXCEPT ![Creator] = "link_release"]
    /\ wlast' = [op |-> "step"]
    /\ UNCHANGED <<th_state, th_pid, all_threads_lock, whpc, whfrom, wth,
                   wsigpend, wstopped, wdue, wcol>>

\* link_thread: release_spinlock(&all_threads_lock)
LinkThreadRelease ==
    /\ WorldOthersIdle
    /\ InOwnCode(Creator)
    /\ wpc[Creator] = "link_release"
    /\ all_threads_lock' = release_spinlock(all_threads_lock)
    /\ wpc' = [wpc EXCEPT ![Creator] = "link_pid"]
    /\ wlast' = [op |-> "step"]
    /\ UNCHANGED <<th_state, th_pid, all_threads, whpc, whfrom, wth, wsigpend,
                   wstopped, wdue, wcol>>

\* link_thread: th->pid=kid_pid, after the lock is released
LinkThreadSetPid ==
    /\ WorldOthersIdle
    /\ InOwnCode(Creator)
    /\ wpc[Creator] = "link_pid"
    /\ th_pid' = [th_pid EXCEPT ![Created] = Created]
    /\ wpc' = [wpc EXCEPT ![Creator] = "lisp"]
    /\ wlast' = [op |-> "step"]
    /\ UNCHANGED <<th_state, all_threads, all_threads_lock, whpc, whfrom, wth,
                   wsigpend, wstopped, wdue, wcol>>

\* create_thread when clone() fails (kid_pid <= 0): the struct thread made
\* by create_thread_struct, STOPPED with pid 0 and on no list, goes to
\* destroy_thread.
CreateThreadFails ==
    /\ WorldOthersIdle
    /\ InOwnCode(Creator)
    /\ wpc[Creator] = "lisp"
    /\ wdue[Creator] = "none"
    /\ th_state[Created] = NoThread
    /\ th_state' = [th_state EXCEPT ![Created] = STATE_STOPPED]
    /\ th_pid' = [th_pid EXCEPT ![Created] = 0]
    /\ wpc' = [wpc EXCEPT ![Creator] = "destroy_lock"]
    /\ wlast' = [op |-> "step"]
    /\ UNCHANGED <<all_threads, all_threads_lock, whpc, whfrom, wth, wsigpend,
                   wstopped, wdue, wcol>>

\* destroy_thread: get_spinlock(&all_threads_lock,th->pid)
DestroyThreadLock ==
    /\ WorldOthersIdle
    /\ InOwnCode(Creator)
    /\ wpc[Creator] = "destroy_lock"
    /\ get_spinlock(all_threads_lock, th_pid[Created]).ok
    /\ all_threads_lock' = get_spinlock(all_threads_lock, th_pid[Created]).word
    /\ wpc' = [wpc EXCEPT ![Creator] = "destroy_unlink"]
    /\ wlast' = [op |-> "step"]
    /\ UNCHANGED <<th_state, th_pid, all_threads, whpc, whfrom, wth, wsigpend,
                   wstopped, wdue, wcol>>

\* An unlink that makes the record's successor the head wherever the record
\* is.
RECURSIVE destroy_unlink_fromHead(_, _)
destroy_unlink_fromHead(list, th) ==
    IF list = <<>> THEN <<>>
    ELSE IF Head(list) = th THEN Tail(list)
    ELSE destroy_unlink_fromHead(Tail(list), th)

\* if(th==all_threads) all_threads=th->next; else { th1=all_threads;
\* while(th1 && th1->next!=th) th1=th1->next; if(th1) th1->next=th->next; }
RECURSIVE destroy_unlink(_, _)
destroy_unlink(list, th) ==
    IF list = <<>> THEN <<>>
    ELSE IF Head(list) = th THEN Tail(list)
    ELSE <<Head(list)>> \o destroy_unlink(Tail(list), th)

\* destroy_thread: th->state=STATE_STOPPED; and th taken off all_threads,
\* when it is there
DestroyThreadUnlink ==
    /\ WorldOthersIdle
    /\ InOwnCode(Creator)
    /\ wpc[Creator] = "destroy_unlink"
    /\ th_state' = [th_state EXCEPT ![Created] = STATE_STOPPED]
    /\ all_threads' = destroy_unlink(all_threads, Created)
    /\ wpc' = [wpc EXCEPT ![Creator] = "destroy_release"]
    /\ wlast' = [op |-> "unlink", pre |-> all_threads]
    /\ UNCHANGED <<th_pid, all_threads_lock, whpc, whfrom, wth, wsigpend,
                   wstopped, wdue, wcol>>

\* destroy_thread: release_spinlock(&all_threads_lock);
DestroyThreadRelease ==
    /\ WorldOthersIdle
    /\ InOwnCode(Creator)
    /\ wpc[Creator] = "destroy_release"
    /\ all_threads_lock' = release_spinlock(all_threads_lock)
    /\ wpc' = [wpc EXCEPT ![Creator] = "destroy_invalidate"]
    /\ wlast' = [op |-> "step"]
    /\ UNCHANGED <<th_state, th_pid, all_threads, whpc, whfrom, wth, wsigpend,
                   wstopped, wdue, wcol>>

\* destroy_thread: arch_os_thread_cleanup(th); os_invalidate(...): the
\* record and its stacks are unmapped.
DestroyThreadInvalidate ==
    /\ WorldOthersIdle
    /\ InOwnCode(Creator)
    /\ wpc[Creator] = "destroy_invalidate"
    /\ th_state' = [th_state EXCEPT ![Created] = NoThread]
    /\ wpc' = [wpc EXCEPT ![Creator] = "lisp"]
    /\ wlast' = [op |-> "step"]
    /\ UNCHANGED <<th_pid, all_threads, all_threads_lock, whpc, whfrom, wth,
                   wsigpend, wstopped, wdue, wcol>>

\* new_thread_trampoline without the wait for th->pid.
NewThreadTrampoline_noWait ==
    /\ WorldOthersIdle
    /\ InOwnCode(Created)
    /\ wpc[Created] = "trampoline"
    /\ th_state' = [th_state EXCEPT ![Created] = STATE_RUNNING]
    /\ wpc' = [wpc EXCEPT ![Created] = "lisp"]
    /\ wlast' = [op |-> "trampoline_running", t |-> Created,
                 collecting |-> wpc[Collector] = "collecting"]
    /\ UNCHANGED <<th_pid, all_threads, all_threads_lock, whpc, whfrom, wth,
                   wsigpend, wstopped, wdue, wcol>>

\* new_thread_trampoline: once th->pid is set, th->state=STATE_RUNNING
\* (without the lock) and the Lisp function is called.
NewThreadTrampoline ==
    /\ WorldOthersIdle
    /\ InOwnCode(Created)
    /\ wpc[Created] = "trampoline"
    /\ ~(th_pid[Created] < 1)
    /\ th_state' = [th_state EXCEPT ![Created] = STATE_RUNNING]
    /\ wpc' = [wpc EXCEPT ![Created] = "lisp"]
    /\ wlast' = [op |-> "trampoline_running", t |-> Created,
                 collecting |-> wpc[Collector] = "collecting"]
    /\ UNCHANGED <<th_pid, all_threads, all_threads_lock, whpc, whfrom, wth,
                   wsigpend, wstopped, wdue, wcol>>

\* ---- the peers' Lisp code ------------------------------------------------

InLisp(t) == InOwnCode(t) /\ wpc[t] = "lisp" /\ wdue[t] = "none"

PeerEnterPseudoAtomic(t) ==
    /\ WorldOthersIdle
    /\ InLisp(t)
    /\ ~wth[t].pa
    /\ wth' = [wth EXCEPT ![t].pa = TRUE, ![t].paint = FALSE]
    /\ wlast' = [op |-> "step"]
    /\ UNCHANGED <<th_state, th_pid, all_threads, all_threads_lock, wpc, whpc,
                   whfrom, wsigpend, wstopped, wdue, wcol>>

PeerLeavePseudoAtomic(t) ==
    /\ WorldOthersIdle
    /\ InLisp(t)
    /\ wth[t].pa
    /\ wth' = [wth EXCEPT ![t].pa = FALSE]
    /\ wdue' = [wdue EXCEPT ![t] = "pa"]
    /\ wlast' = [op |-> "step"]
    /\ UNCHANGED <<th_state, th_pid, all_threads, all_threads_lock, wpc, whpc,
                   whfrom, wsigpend, wstopped, wcol>>

PeerDisableInterrupts(t) ==
    /\ WorldOthersIdle
    /\ InLisp(t)
    /\ wth[t].ienabled
    /\ ~wth[t].pa
    /\ wth' = [wth EXCEPT ![t].ienabled = FALSE]
    /\ wlast' = [op |-> "step"]
    /\ UNCHANGED <<th_state, th_pid, all_threads, all_threads_lock, wpc, whpc,
                   whfrom, wsigpend, wstopped, wdue, wcol>>

PeerEnableInterrupts(t) ==
    /\ WorldOthersIdle
    /\ InLisp(t)
    /\ ~wth[t].ienabled
    /\ ~wth[t].pa
    /\ wth' = [wth EXCEPT ![t].ienabled = TRUE]
    /\ wdue' = [wdue EXCEPT ![t] = "int"]
    /\ wlast' = [op |-> "step"]
    /\ UNCHANGED <<th_state, th_pid, all_threads, all_threads_lock, wpc, whpc,
                   whfrom, wsigpend, wstopped, wcol>>

\* ---- sig_stop_for_gc_handler --------------------------------------------

\* The handler from its entry to the call of get_spinlock: it defers itself
\* and returns, or it goes on to stop the thread.  Called by
\* run_deferred_handler, its return clears pending_handler.
sig_stop_for_gc_handler_entry(d, from) ==
    LET r == maybe_defer_handler(d, "sig_stop_for_gc_handler", SIG_STOP_FOR_GC,
                                 "i1", TRUE)
    IN IF r.deferred
       THEN [r EXCEPT !.d = IF from = "deferred"
                            THEN [r.d EXCEPT !.pending_handler = NULL]
                            ELSE r.d]
       ELSE [r EXCEPT !.d = fake_foreign_function_call(d)]

\* The OS delivers SIG_STOP_FOR_GC to a thread whose mask lets it through.
DeliverStopForGc(t) ==
    /\ WorldOthersIdle
    /\ InOwnCode(t)
    /\ t \in wsigpend
    /\ SIG_STOP_FOR_GC \notin wth[t].mask
    /\ wsigpend' = wsigpend \ {t}
    /\ LET r == sig_stop_for_gc_handler_entry(wth[t], "signal")
       IN /\ wth' = [wth EXCEPT ![t] = r.d]
          /\ whpc' = [whpc EXCEPT ![t] = IF r.deferred THEN "none" ELSE "h_lock"]
          /\ whfrom' = [whfrom EXCEPT ![t] = IF r.deferred THEN "none" ELSE "signal"]
          /\ wlast' = [op |-> IF r.deferred THEN "deferred" ELSE "stopping",
                       t |-> t, why |-> r.why, state |-> th_state[t]]
    /\ UNCHANGED <<th_state, th_pid, all_threads, all_threads_lock, wpc,
                   wstopped, wdue, wcol>>

\* The check a peer owes at the end of a pseudo-atomic region or of
\* WITHOUT-INTERRUPTS: with the flag set, interrupt_handle_pending runs and
\* run_deferred_handler calls the pending handler.
PeerHandlePending(t) ==
    /\ WorldOthersIdle
    /\ InOwnCode(t)
    /\ wdue[t] # "none"
    /\ wdue' = [wdue EXCEPT ![t] = "none"]
    /\ LET flag == IF wdue[t] = "pa" THEN wth[t].paint ELSE wth[t].ipending
           d == interrupt_handle_pending_restore(wth[t])
           known == d.pending_handler = "sig_stop_for_gc_handler"
           r == sig_stop_for_gc_handler_entry(d, "deferred")
       IN /\ wth' = [wth EXCEPT ![t] =
                        IF ~flag THEN @
                        ELSE IF known THEN r.d
                        ELSE [d EXCEPT !.fault = TRUE, !.pending_handler = NULL]]
          /\ whpc' = [whpc EXCEPT ![t] =
                        IF flag /\ known /\ ~r.deferred THEN "h_lock" ELSE "none"]
          /\ whfrom' = [whfrom EXCEPT ![t] =
                        IF flag /\ known /\ ~r.deferred THEN "deferred" ELSE "none"]
          /\ wlast' = [op |-> "handle_pending", t |-> t, trapped |-> flag]
    /\ UNCHANGED <<th_state, th_pid, all_threads, all_threads_lock, wpc,
                   wsigpend, wstopped, wcol>>

\* get_spinlock(&all_threads_lock,thread->pid)
StopHandlerLock(t) ==
    /\ WorldOthersIdle
    /\ OnCpu(t)
    /\ whpc[t] = "h_lock"
    /\ get_spinlock(all_threads_lock, th_pid[t]).ok
    /\ all_threads_lock' = get_spinlock(all_threads_lock, th_pid[t]).word
    /\ whpc' = [whpc EXCEPT ![t] = "h_state"]
    /\ wlast' = [op |-> "step"]
    /\ UNCHANGED <<th_state, th_pid, all_threads, wpc, whfrom, wth, wsigpend,
                   wstopped, wdue, wcol>>

\* countdown_to_gc--; thread->state=STATE_STOPPED;
StopHandlerState(t) ==
    /\ WorldOthersIdle
    /\ OnCpu(t)
    /\ whpc[t] = "h_state"
    /\ th_state' = [th_state EXCEPT ![t] = STATE_STOPPED]
    /\ whpc' = [whpc EXCEPT ![t] = "h_release"]
    /\ wlast' = [op |-> "step"]
    /\ UNCHANGED <<th_pid, all_threads, all_threads_lock, wpc, whfrom, wth,
                   wsigpend, wstopped, wdue, wcol>>

\* release_spinlock(&all_threads_lock)
StopHandlerRelease(t) ==
    /\ WorldOthersIdle
    /\ OnCpu(t)
    /\ whpc[t] = "h_release"
    /\ all_threads_lock' = release_spinlock(all_threads_lock)
    /\ whpc' = [whpc EXCEPT ![t] = "h_kill"]
    /\ wlast' = [op |-> "step"]
    /\ UNCHANGED <<th_state, th_pid, all_threads, wpc, whfrom, wth, wsigpend,
                   wstopped, wdue, wcol>>

\* kill(thread->pid,SIGSTOP): the OS suspends the thread
StopHandlerKill(t) ==
    /\ WorldOthersIdle
    /\ OnCpu(t)
    /\ whpc[t] = "h_kill"
    /\ wstopped' = wstopped \cup KillTargets(th_pid[t])
    /\ whpc' = [whpc EXCEPT ![t] = "h_undo"]
    /\ wlast' = [op |-> "h_kill", t |-> t, from |-> whfrom[t]]
    /\ UNCHANGED <<th_state, th_pid, all_threads, all_threads_lock, wpc,
                   whfrom, wth, wsigpend, wdue, wcol>>

\* Resumed by SIGCONT: undo_fake_foreign_function_call(context) and return,
\* to the interrupted code or to run_deferred_handler
\* (data->pending_handler=0).
StopHandlerReturn(t) ==
    /\ WorldOthersIdle
    /\ OnCpu(t)
    /\ whpc[t] = "h_undo"
    /\ wth' = [wth EXCEPT ![t] =
                  LET d == undo_fake_foreign_function_call(@)
                  IN IF whfrom[t] = "deferred"
                     THEN [d EXCEPT !.pending_handler = NULL] ELSE d]
    /\ whpc' = [whpc EXCEPT ![t] = "none"]
    /\ whfrom' = [whfrom EXCEPT ![t] = "none"]
    /\ wlast' = [op |-> "step"]
    /\ UNCHANGED <<th_state, th_pid, all_threads, all_threads_lock, wpc,
                   wsigpend, wstopped, wdue, wcol>>

NextWorld ==
    \/ StopTheWorldLock
    \/ StopTheWorldSignal
    \/ StopTheWorldRelease
    \/ StopTheWorldCheckHead
    \/ StopTheWorldScanBegin
    \/ StopTheWorldScan
    \/ StopTheWorldDone
    \/ StartTheWorldLock
    \/ StartTheWorldLoop
    \/ StartTheWorldRelease
    \/ CreateThread
    \/ LinkThreadLock
    \/ LinkThreadPush
    \/ LinkThreadRelease
    \/ LinkThreadSetPid
    \/ CreateThreadFails
    \/ DestroyThreadLock
    \/ DestroyThreadUnlink
    \/ DestroyThreadRelease
    \/ DestroyThreadInvalidate
    \/ NewThreadTrampoline
    \/ \E t \in LispPeers : PeerEnterPseudoAtomic(t)
    \/ \E t \in LispPeers : PeerLeavePseudoAtomic(t)
    \/ \E t \in LispPeers : PeerDisableInterrupts(t)
    \/ \E t \in LispPeers : PeerEnableInterrupts(t)
    \/ \E t \in Peers : DeliverStopForGc(t)
    \/ \E t \in Peers : PeerHandlePending(t)
    \/ \E t \in Peers : StopHandlerLock(t)
    \/ \E t \in Peers : StopHandlerState(t)
    \/ \E t \in Peers : StopHandlerRelease(t)
    \/ \E t \in Peers : StopHandlerKill(t)
    \/ \E t \in Peers : StopHandlerReturn(t)

\* ---- collections under fair scheduling -----------------------------------
\* The collector collects again and again among threads that are not
\* creating threads: gc_stop_the_world, the collection, gc_start_the_world.
CollectorStep ==
    \/ StopTheWorldLock
    \/ StopTheWorldSignal
    \/ StopTheWorldRelease
    \/ StopTheWorldCheckHead
    \/ StopTheWorldScanBegin
    \/ StopTheWorldScan
    \/ StopTheWorldDone
    \/ StartTheWorldLock
    \/ StartTheWorldLoop
    \/ StartTheWorldRelease

\* sig_stop_for_gc_handler from get_spinlock to its return.
StopHandlerStep(t) ==
    \/ StopHandlerLock(t)
    \/ StopHandlerState(t)
    \/ StopHandlerRelease(t)
    \/ StopHandlerKill(t)
    \/ StopHandlerReturn(t)

NextRounds ==
    \/ CollectorStep
    \/ \E t \in LispPeers : PeerEnterPseudoAtomic(t)
    \/ \E t \in LispPeers : PeerDisableInterrupts(t)
    \/ \E t \in LispPeers : PeerLeavePseudoAtomic(t)
    \/ \E t \in LispPeers : PeerEnableInterrupts(t)
    \/ \E t \in Peers : DeliverStopForGc(t)
    \/ \E t \in Peers : PeerHandlePending(t)
    \/ \E t \in Peers : StopHandlerStep(t)

\* Fair scheduling: a thread that can take its next step takes it.  The
\* collector, once it has called gc_stop_the_world, goes on to the end of
\* gc_start_the_world (when to collect is its own choice); the OS delivers
\* a pending signal to a thread that is running and has it unmasked; a peer
\* leaves the pseudo-atomic region it is in and, whatever regions it enters
\* meanwhile, the WITHOUT-INTERRUPTS it is in (strong fairness: the exit
\* cannot be taken inside a pseudo-atomic region), makes the check it owes
\* at the end, and goes on through the handler.  The handler
\* spins in get_spinlock while the collector, round after round, takes the
\* lock and releases it; the collector's sched_yield() after each release
\* lets the spinning thread run with the lock free, so the handler gets the
\* lock (strong fairness).
FairRounds ==
    /\ WF_vars(CollectorStep /\ wpc[Collector] # "lisp")
    /\ \A t \in Peers :
          /\ WF_vars(DeliverStopForGc(t))
          /\ WF_vars(PeerLeavePseudoAtomic(t))
          /\ SF_vars(PeerEnableInterrupts(t))
          /\ WF_vars(PeerHandlePending(t))
          /\ SF_vars(StopHandlerStep(t))

(***************************************************************************)
(*               gc-common.c: scavenging and transporting                  *)
(*                                                                         *)
(* The build without LISP_FEATURE_GENCGC, 32-bit words.  Memory is a       *)
(* function from byte addresses of words to words; a word is a number and  *)
(* its tag bits are computed as the C code computes them.  Everything takes *)
(* the collector's state g and returns the new one; g.lose is set where    *)
(* the C code calls lose() or fails a gc_assert, and nothing runs after.   *)
(* gc.c (collect_garbage, scavenge_newspace, from_space_p, new_space_p,    *)
(* gc_general_alloc, scav_weak_pointer) and the generated genesis headers  *)
(* (the tag values) are not part of these sources and are modelled from    *)
(* their description.                                                      *)
(***************************************************************************)

N_WORD_BYTES == 4
N_LOWTAG_BITS == 3
N_WIDETAG_BITS == 8
LOWTAG_MASK == 2^N_LOWTAG_BITS - 1
WIDETAG_MASK == 2^N_WIDETAG_BITS - 1

INSTANCE_POINTER_LOWTAG == 1
LIST_POINTER_LOWTAG == 3
FUN_POINTER_LOWTAG == 5
OTHER_POINTER_LOWTAG == 7
BIGNUM_WIDETAG == 10
VALUE_CELL_HEADER_WIDETAG == 90
WEAK_POINTER_WIDETAG == 98
CODE_HEADER_WIDETAG == 58
SIMPLE_FUN_HEADER_WIDETAG == 62
INSTANCE_HEADER_WIDETAG == 82
SIMPLE_VECTOR_WIDETAG == 142
SIMPLE_ARRAY_UNSIGNED_BYTE_8_WIDETAG == 158
N_WORD_BITS == 32

\* A lispobj is an unsigned word of N_WORD_BITS bits; it is represented by
\* the integer from -2^31 to 2^31 - 1 that has the same 32 bits (its value as
\* a long). The casts between lispobj and long keep the bits, so they keep
\* the representative; x & mask, for a mask of low bits, is x % (mask + 1).
lowtag_of(obj) == obj % (LOWTAG_MASK + 1)
widetag_of(obj) == obj % (WIDETAG_MASK + 1)
\* An is_lisp_pointer that looks at the second bit.
is_lisp_pointer_secondBit(obj) == (obj \div 2) % 2 = 1
is_lisp_pointer(obj) == obj % 2 = 1
fixnump(obj) == obj % 4 = 0
native_pointer(obj) == obj - lowtag_of(obj)
\* make_lispobj(o,low_tag) is LOW_WORD(o)|low_tag; o is always the address
\* of a doubleword here, the three low bits of which are 0.
make_lispobj(o, low_tag) == o + low_tag
\* (lispobj)((n)<<2): the low 30 bits of n, two places up; the bits shifted
\* out of the word are lost.
make_fixnum(n) ==
    LET low == n % 2^(N_WORD_BITS - 2)
    IN (IF low >= 2^(N_WORD_BITS - 3) THEN low - 2^(N_WORD_BITS - 2) ELSE low) * 4
\* A fixnum_value that shifts the unsigned word.
fixnum_value_unsigned(n) ==
    IF n < 0 THEN n \div 4 + 2^(N_WORD_BITS - 2) ELSE n \div 4
\* ((long)n)>>2: the shift of a negative long keeps the sign.
fixnum_value(n) == n \div 4
\* x | tag, for a lowtag
logior(x, tag) ==
    (x - (x % 8))
        + 4 * (IF (x \div 4) % 2 = 1 \/ (tag \div 4) % 2 = 1 THEN 1 ELSE 0)
        + 2 * (IF (x \div 2) % 2 = 1 \/ (tag \div 2) % 2 = 1 THEN 1 ELSE 0)
        + (IF x % 2 = 1 \/ tag % 2 = 1 THEN 1 ELSE 0)
HeaderValue(obj) == obj \div 2^N_WIDETAG_BITS
CEILING(x, y) == ((x + y - 1) \div y) * y

\* ---- the spaces ----------------------------------------------------------
static_space == 64
static_space_end == 96
from_space == 128
from_space_free_pointer == 256
new_space == 256
new_space_end == 384

WordsOf(lo, hi) == {a \in lo..(hi - 1) : a % N_WORD_BYTES = 0}
Addrs == WordsOf(static_space, static_space_end)
             \cup WordsOf(from_space, from_space_free_pointer)
             \cup WordsOf(new_space, new_space_end)

NIL == make_lispobj(static_space, LIST_POINTER_LOWTAG)
T == make_lispobj(static_space + 8, OTHER_POINTER_LOWTAG)

\* A from_space_p that knows only the first words of from space.
from_space_p_firstWords(obj) ==
    LET ptr == native_pointer(obj)
    IN ptr >= from_space /\ ptr < from_space + 8 * N_WORD_BYTES
from_space_p(obj) ==
    LET ptr == native_pointer(obj)
    IN ptr >= from_space /\ ptr < from_space_free_pointer
new_space_p(g, obj) ==
    LET ptr == native_pointer(obj)
    IN ptr >= new_space /\ ptr < g.free

\* F(e), with e evaluated once: the C code's sequencing of statements.
With(e, F(_)) == CHOOSE y \in {F(x) : x \in {e}} : TRUE

\* A store through a pointer; outside the mapped spaces it is a fault.
Store(g, a, w) ==
    IF a \in DOMAIN g.mem THEN [g EXCEPT !.mem[a] = w] ELSE [g EXCEPT !.lose = TRUE]
gc_assert(g, ok) == IF ok THEN g ELSE [g EXCEPT !.lose = TRUE]

\* ---- forwarding pointers -------------------------------------------------
\* A forwarding test that takes any pointer for a forwarding pointer.
forwarding_pointer_p_anyPointer(g, pointer) ==
    is_lisp_pointer(g.mem[pointer])

forwarding_pointer_p(g, pointer) ==
    LET first_word == g.mem[pointer]
    IN is_lisp_pointer(first_word) /\ new_space_p(g, first_word)

forwarding_pointer_value(g, pointer) == g.mem[pointer]

\* A set_forwarding_pointer that writes nothing.
set_forwarding_pointer_nothing(g, pointer, newspace_copy) == g

set_forwarding_pointer(g, pointer, newspace_copy) ==
    Store(g, pointer, newspace_copy)

\* ---- copying -------------------------------------------------------------
\* gc_general_alloc: bump new_space_free_pointer; out of space is fatal.
gc_general_alloc(g, nbytes) ==
    IF g.free + nbytes > new_space_end
    THEN [g |-> [g EXCEPT !.lose = TRUE], v |-> g.free]
    ELSE [g |-> [g EXCEPT !.free = @ + nbytes], v |-> g.free]

\* memcpy(new, old, nwords*N_WORD_BYTES), and the history of what was copied
\* where.
memcpy(g, new, old, nwords) ==
    [g EXCEPT !.mem = [a \in DOMAIN g.mem |->
                          IF a >= new /\ a < new + nwords * N_WORD_BYTES
                          THEN g.mem[old + (a - new)] ELSE g.mem[a]],
              !.log = Append(@, <<old, new>>)]

copy_object(g, object, nwords) ==
    With(gc_general_alloc(gc_assert(g, /\ is_lisp_pointer(object)
                                       /\ from_space_p(object)
                                       /\ nwords % 2 = 0),
                          nwords * N_WORD_BYTES),
         LAMBDA a :
             IF a.g.lose THEN [g |-> a.g, v |-> object]
             ELSE [g |-> memcpy(a.g, a.v, native_pointer(object), nwords),
                   v |-> make_lispobj(a.v, lowtag_of(object))])

\* ---- lists ---------------------------------------------------------------
RECURSIVE trans_list_loop(_, _, _)
trans_list_loop(g, cdr, new_cons) ==
    IF \/ g.lose
       \/ lowtag_of(cdr) # LIST_POINTER_LOWTAG
       \/ ~from_space_p(cdr)
       \/ forwarding_pointer_p(g, native_pointer(cdr))
    THEN g
    ELSE With(gc_general_alloc(g, 2 * N_WORD_BYTES), LAMBDA a :
         IF a.g.lose THEN a.g
         ELSE LET cdr_cons == native_pointer(cdr)
                  new_cdr_cons == a.v
                  new_cdr == make_lispobj(new_cdr_cons, lowtag_of(cdr))
              IN With(memcpy(a.g, new_cdr_cons, cdr_cons, 2), LAMBDA g1 :
                 With(set_forwarding_pointer(g1, cdr_cons, new_cdr), LAMBDA g2 :
                 With(Store(g2, new_cons + N_WORD_BYTES, new_cdr), LAMBDA g3 :
                 With(g.mem[cdr_cons + N_WORD_BYTES], LAMBDA next_cdr :
                      trans_list_loop(g3, next_cdr, new_cdr_cons))))))

\* A trans_list that copies the first cons only.
trans_list_noLinearize(g, object) ==
    With(gc_general_alloc(g, 2 * N_WORD_BYTES), LAMBDA a :
    IF a.g.lose THEN [g |-> a.g, v |-> object]
    ELSE LET cons == native_pointer(object)
             new_cons == a.v
             new_list_pointer == make_lispobj(new_cons, lowtag_of(object))
         IN With(memcpy(a.g, new_cons, cons, 2), LAMBDA g1 :
            With(set_forwarding_pointer(g1, cons, new_list_pointer), LAMBDA g2 :
                 [g |-> g2, v |-> new_list_pointer])))

trans_list(g, object) ==
    With(gc_general_alloc(g, 2 * N_WORD_BYTES), LAMBDA a :
    IF a.g.lose THEN [g |-> a.g, v |-> object]
    ELSE LET cons == native_pointer(object)
             new_cons == a.v
             new_list_pointer == make_lispobj(new_cons, lowtag_of(object))
         IN With(memcpy(a.g, new_cons, cons, 2), LAMBDA g1 :
            With(set_forwarding_pointer(g1, cons, new_list_pointer), LAMBDA g2 :
            With(g.mem[cons + N_WORD_BYTES], LAMBDA cdr :
                 [g |-> trans_list_loop(g2, cdr, new_cons),
                  v |-> new_list_pointer]))))

scav_list_pointer(g, where, object) ==
    With(trans_list(g, object), LAMBDA r :
    With(gc_assert(r.g, r.v # object), LAMBDA g1 :
    With(set_forwarding_pointer(g1, native_pointer(object), r.v), LAMBDA g2 :
    With(gc_assert(g2, is_lisp_pointer(r.v) /\ ~from_space_p(r.v)), LAMBDA g3 :
         [g |-> IF g3.lose THEN g3 ELSE Store(g3, where, r.v), n |-> 1]))))

\* ---- boxed and unboxed objects -----------------------------------------
scav_immediate(g, where, object) == [g |-> g, n |-> 1]
scav_boxed(g, where, object) == [g |-> g, n |-> 1]
scav_unboxed(g, where, object) ==
    [g |-> g, n |-> CEILING(HeaderValue(object) + 1, 2)]
scav_lose(g, where, object) == [g |-> [g EXCEPT !.lose = TRUE], n |-> 0]

trans_boxed(g, object) ==
    LET header == g.mem[native_pointer(object)]
        length == CEILING(HeaderValue(header) + 1, 2)
    IN copy_object(gc_assert(g, is_lisp_pointer(object)), object, length)

\* copy_unboxed_object is copy_object with an unboxed allocation region.
trans_unboxed(g, object) ==
    LET header == g.mem[native_pointer(object)]
        length == CEILING(HeaderValue(header) + 1, 2)
    IN copy_object(gc_assert(g, is_lisp_pointer(object)), object, length)

trans_lose(g, object) == [g |-> [g EXCEPT !.lose = TRUE], v |-> object]

\* The size routines: the words of the object at where; -1 for size_lose,
\* which does not return.
size_boxed(g, where) == CEILING(HeaderValue(g.mem[where]) + 1, 2)
size_unboxed(g, where) == CEILING(HeaderValue(g.mem[where]) + 1, 2)
size_lose(g, where) == -1

\* ---- vectors ------------------------------------------------------------
\* struct vector: header, length, data. NWORDS(x, n_bits) is the words that
\* x elements of n_bits bits fill; copy_large_object and
\* copy_large_unboxed_object are copy_object, there being no large objects
\* in a semispace.
vector_length(vector) == vector + N_WORD_BYTES
NWORDS(x, n_bits) ==
    CEILING(x, N_WORD_BITS \div n_bits) \div (N_WORD_BITS \div n_bits)

trans_vector(g, object) ==
    LET vector == native_pointer(object)
        length == fixnum_value(g.mem[vector_length(vector)])
        nwords == CEILING(length + 2, 2)
    IN copy_object(gc_assert(g, is_lisp_pointer(object)), object, nwords)

size_vector(g, where) ==
    LET length == fixnum_value(g.mem[vector_length(where)])
    IN CEILING(length + 2, 2)

\* A trans_vector_unsigned_byte_8 that takes the length for a count of words.
trans_vector_unsigned_byte_8_asWords(g, object) == trans_vector(g, object)

trans_vector_unsigned_byte_8(g, object) ==
    LET vector == native_pointer(object)
        length == fixnum_value(g.mem[vector_length(vector)])
        nwords == CEILING(NWORDS(length, 8) + 2, 2)
    IN copy_object(gc_assert(g, is_lisp_pointer(object)), object, nwords)

size_vector_unsigned_byte_8(g, where) ==
    LET length == fixnum_value(g.mem[vector_length(where)])
    IN CEILING(NWORDS(length, 8) + 2, 2)

\* ---- weak pointers -------------------------------------------------------
\* struct weak_pointer: header, value, broken, next
WEAK_POINTER_NWORDS == CEILING(4, 2)
wp_value(wp) == wp + N_WORD_BYTES
wp_broken(wp) == wp + 2 * N_WORD_BYTES
wp_next(wp) == wp + 3 * N_WORD_BYTES
NULL_wp == 0

\* A trans_weak_pointer that leaves the copy off the list.
trans_weak_pointer_unlisted(g, object) ==
    copy_object(gc_assert(g, is_lisp_pointer(object)), object, WEAK_POINTER_NWORDS)

size_weak_pointer(g, where) == WEAK_POINTER_NWORDS

trans_weak_pointer(g, object) ==
    With(copy_object(gc_assert(g, is_lisp_pointer(object)), object,
                     WEAK_POINTER_NWORDS),
         LAMBDA r :
             IF r.g.lose THEN r
             ELSE LET copy == r.v
                      wp == native_pointer(copy)
                  IN With(gc_assert(r.g, widetag_of(r.g.mem[wp]) = WEAK_POINTER_WIDETAG),
                          LAMBDA g1 :
                     With(Store(g1, wp_next(wp), g1.weak_pointers), LAMBDA g2 :
                          [g |-> [g2 EXCEPT !.weak_pointers = wp], v |-> copy])))

\* scav_weak_pointer (gc.c): steps over the weak pointer, value slot
\* included.
scav_weak_pointer(g, where, object) == [g |-> g, n |-> WEAK_POINTER_NWORDS]

\* ---- the tables of gc_init_tables ----------------------------------------
\* The objects of the model's heap are conses, value cells, weak pointers and
\* bignums; the entries for the other widetags are left at their defaults
\* here.
scavtab(widetag) ==
    CASE lowtag_of(widetag) \in {0, 4} -> "scav_immediate"
      [] lowtag_of(widetag) = FUN_POINTER_LOWTAG -> "scav_fun_pointer"
      [] lowtag_of(widetag) = LIST_POINTER_LOWTAG -> "scav_list_pointer"
      [] lowtag_of(widetag) = INSTANCE_POINTER_LOWTAG -> "scav_instance_pointer"
      [] lowtag_of(widetag) = OTHER_POINTER_LOWTAG -> "scav_other_pointer"
      [] widetag = BIGNUM_WIDETAG -> "scav_unboxed"
      [] widetag = CODE_HEADER_WIDETAG -> "scav_code_header"
      [] widetag = INSTANCE_HEADER_WIDETAG -> "scav_instance"
      [] widetag = VALUE_CELL_HEADER_WIDETAG -> "scav_boxed"
      [] widetag = WEAK_POINTER_WIDETAG -> "scav_weak_pointer"
      [] OTHER -> "scav_lose"

transother(widetag) ==
    CASE widetag = BIGNUM_WIDETAG -> "trans_unboxed"
      [] widetag = CODE_HEADER_WIDETAG -> "trans_code_header"
      [] widetag = SIMPLE_FUN_HEADER_WIDETAG -> "trans_fun_header"
      [] widetag = SIMPLE_VECTOR_WIDETAG -> "trans_vector"
      [] widetag = SIMPLE_ARRAY_UNSIGNED_BYTE_8_WIDETAG -> "trans_vector_unsigned_byte_8"
      [] widetag = INSTANCE_HEADER_WIDETAG -> "trans_boxed"
      [] widetag = VALUE_CELL_HEADER_WIDETAG -> "trans_boxed"
      [] widetag = WEAK_POINTER_WIDETAG -> "trans_weak_pointer"
      [] OTHER -> "trans_lose"

sizetab(widetag) ==
    CASE widetag = BIGNUM_WIDETAG -> "size_unboxed"
      [] widetag = CODE_HEADER_WIDETAG -> "size_code_header"
      [] widetag = SIMPLE_VECTOR_WIDETAG -> "size_vector"
      [] widetag = SIMPLE_ARRAY_UNSIGNED_BYTE_8_WIDETAG -> "size_vector_unsigned_byte_8"
      [] widetag = INSTANCE_HEADER_WIDETAG -> "size_boxed"
      [] widetag = VALUE_CELL_HEADER_WIDETAG -> "size_boxed"
      [] widetag = WEAK_POINTER_WIDETAG -> "size_weak_pointer"
      [] OTHER -> "size_lose"

\* ---- code objects ---------------------------------------------------
\* struct code: header, code_size, entry_points, debug_info,
\* trace_table_offset, constants; struct simple_fun: header, self, next,
\* name, arglist, type, code.
code_size(code) == code + N_WORD_BYTES
entry_points(code) == code + 2 * N_WORD_BYTES
fun_self(f) == f + N_WORD_BYTES
fun_next(f) == f + 2 * N_WORD_BYTES
fun_name(f) == f + 3 * N_WORD_BYTES
fun_arglist(f) == f + 4 * N_WORD_BYTES
fun_type(f) == f + 5 * N_WORD_BYTES
FUN_RAW_ADDR_OFFSET == 6 * N_WORD_BYTES - FUN_POINTER_LOWTAG

\* A loop of trans_code that leaves the self pointers as they were copied.
RECURSIVE trans_code_loop_noSelf(_, _, _, _)
trans_code_loop_noSelf(g, fheaderl, prev_pointer, displacement) ==
    IF g.lose \/ fheaderl = NIL THEN g
    ELSE LET fheaderp == native_pointer(fheaderl)
             nfheaderl == fheaderl + displacement
             nfheaderp == native_pointer(nfheaderl)
         IN With(gc_assert(g, widetag_of(g.mem[fheaderp]) = SIMPLE_FUN_HEADER_WIDETAG),
                 LAMBDA g0 :
            IF g0.lose THEN g0
            ELSE With(set_forwarding_pointer(g0, fheaderp, nfheaderl), LAMBDA g1 :
                 With(Store(g1, prev_pointer, nfheaderl), LAMBDA g3 :
                 With(g3.mem[fun_next(fheaderp)], LAMBDA next :
                      trans_code_loop_noSelf(g3, next, fun_next(nfheaderp),
                                             displacement)))))

\* trans_code's loop over the entry points: forward each function header,
\* fix the self pointer of its copy and the link that leads to the copy.
RECURSIVE trans_code_loop(_, _, _, _)
trans_code_loop(g, fheaderl, prev_pointer, displacement) ==
    IF g.lose \/ fheaderl = NIL THEN g
    ELSE LET fheaderp == native_pointer(fheaderl)
             nfheaderl == fheaderl + displacement
             nfheaderp == native_pointer(nfheaderl)
         IN With(gc_assert(g, widetag_of(g.mem[fheaderp]) = SIMPLE_FUN_HEADER_WIDETAG),
                 LAMBDA g0 :
            IF g0.lose THEN g0
            ELSE With(set_forwarding_pointer(g0, fheaderp, nfheaderl), LAMBDA g1 :
                 With(Store(g1, fun_self(nfheaderp), FUN_RAW_ADDR_OFFSET + nfheaderl),
                      LAMBDA g2 :
                 With(Store(g2, prev_pointer, nfheaderl), LAMBDA g3 :
                 With(g3.mem[fun_next(fheaderp)], LAMBDA next :
                      trans_code_loop(g3, next, fun_next(nfheaderp), displacement))))))

\* trans_code(code): the new state and the struct code * returned, which for
\* a code object transported before is its forwarding pointer as stored.
trans_code(g, code) ==
    IF forwarding_pointer_p(g, code)
    THEN [g |-> g, v |-> forwarding_pointer_value(g, code)]
    ELSE LET first == g.mem[code]
             l_code == logior(code, OTHER_POINTER_LOWTAG)
             ncode_words == fixnum_value(g.mem[code_size(code)])
             nheader_words == HeaderValue(first)
             nwords == CEILING(ncode_words + nheader_words, 2)
         IN With(copy_object(gc_assert(g, widetag_of(first) = CODE_HEADER_WIDETAG),
                             l_code, nwords),
                 LAMBDA c :
            IF c.g.lose THEN [g |-> c.g, v |-> code]
            ELSE With(set_forwarding_pointer(c.g, code, c.v), LAMBDA g1 :
                 With(g1.mem[entry_points(code)], LAMBDA fheaderl :
                      [g |-> trans_code_loop(g1, fheaderl,
                                             entry_points(native_pointer(c.v)),
                                             c.v - l_code),
                       v |-> native_pointer(c.v)])))

trans_code_header(g, object) ==
    With(trans_code(g, native_pointer(object)), LAMBDA r :
         [g |-> r.g, v |-> logior(r.v, OTHER_POINTER_LOWTAG)])

\* A trans_fun_header that returns the pointer to the code's copy.
trans_fun_header_noOffset(g, object) ==
    LET fheader == native_pointer(object)
        offset == HeaderValue(g.mem[fheader]) * N_WORD_BYTES
    IN With(trans_code(g, fheader - offset), LAMBDA r :
            [g |-> r.g, v |-> logior(r.v, FUN_POINTER_LOWTAG)])

trans_fun_header(g, object) ==
    LET fheader == native_pointer(object)
        offset == HeaderValue(g.mem[fheader]) * N_WORD_BYTES
    IN With(trans_code(g, fheader - offset), LAMBDA r :
            [g |-> r.g, v |-> logior(r.v + offset, FUN_POINTER_LOWTAG)])

scav_fun_pointer(g, where, object) ==
    LET first_pointer == native_pointer(object)
        g0 == gc_assert(g, is_lisp_pointer(object))
    IN With(IF widetag_of(g.mem[first_pointer]) = SIMPLE_FUN_HEADER_WIDETAG
            THEN trans_fun_header(g0, object) ELSE trans_boxed(g0, object),
            LAMBDA r :                         \* copy = r.v
       With(IF r.v # object
            THEN set_forwarding_pointer(r.g, first_pointer, r.v) ELSE r.g,
            LAMBDA g1 :
       With(gc_assert(g1, is_lisp_pointer(r.v) /\ ~from_space_p(r.v)), LAMBDA g2 :
            [g |-> IF g2.lose THEN g2 ELSE Store(g2, where, r.v), n |-> 1])))

RECURSIVE scavenge(_, _, _)

\* struct instance: header, slots[]; the layout is slots[0]. Of the layout,
\* slots[15] is the pure flag and the slot after it n_untagged_slots.
instance_slot(instance, i) == instance + (1 + i) * N_WORD_BYTES
layout_pure(layout) == instance_slot(native_pointer(layout), 15)
layout_n_untagged_slots(layout) == instance_slot(native_pointer(layout), 16)

\* scav_instance_pointer: the object is a from-space pointer, not forwarded.
scav_instance_pointer(g, where, object) ==
    With(trans_boxed(g, object), LAMBDA r :             \* copy = r.v
    With(set_forwarding_pointer(r.g, native_pointer(object), r.v), LAMBDA g1 :
         [g |-> IF g1.lose THEN g1 ELSE Store(g1, where, r.v), n |-> 1]))

\* A scav_instance that does not count the header word.
scav_instance_noHeader(g, where, object) ==
    LET ntotal == HeaderValue(object)
        layout0 == g.mem[instance_slot(where, 0)]
    IN IF layout0 = 0 THEN [g |-> g, n |-> 1]
       ELSE LET layout == IF forwarding_pointer_p(g, native_pointer(layout0))
                          THEN forwarding_pointer_value(g, native_pointer(layout0))
                          ELSE layout0
                nuntagged == g.mem[layout_n_untagged_slots(layout)]
            IN [g |-> scavenge(g, where + N_WORD_BYTES,
                               ntotal - fixnum_value(nuntagged)),
                n |-> ntotal]

scav_instance(g, where, object) ==
    LET ntotal == HeaderValue(object)
        layout0 == g.mem[instance_slot(where, 0)]
    IN IF layout0 = 0 THEN [g |-> g, n |-> 1]
       ELSE LET layout == IF forwarding_pointer_p(g, native_pointer(layout0))
                          THEN forwarding_pointer_value(g, native_pointer(layout0))
                          ELSE layout0
                nuntagged == g.mem[layout_n_untagged_slots(layout)]
            IN [g |-> scavenge(g, where + N_WORD_BYTES,
                               ntotal - fixnum_value(nuntagged)),
                n |-> ntotal + 1]

\* scav_code_header's loop over the entry points of the code at where.
RECURSIVE scav_code_entries(_, _)
scav_code_entries(g, entry_point) ==
    IF g.lose \/ entry_point = NIL THEN g
    ELSE LET function_ptr == native_pointer(entry_point)
         IN With(gc_assert(g, /\ is_lisp_pointer(entry_point)
                              /\ function_ptr \in DOMAIN g.mem
                              /\ widetag_of(g.mem[function_ptr])
                                     = SIMPLE_FUN_HEADER_WIDETAG),
                 LAMBDA g0 :
            IF g0.lose THEN g0
            ELSE With(scavenge(g0, fun_name(function_ptr), 1), LAMBDA g1 :
                 With(scavenge(g1, fun_arglist(function_ptr), 1), LAMBDA g2 :
                 With(scavenge(g2, fun_type(function_ptr), 1), LAMBDA g3 :
                 With(g3.mem[fun_next(function_ptr)], LAMBDA next :
                      scav_code_entries(g3, next))))))

scav_code_header(g, where, object) ==
    LET n_code_words == fixnum_value(g.mem[code_size(where)])
        n_header_words == HeaderValue(object)
        n_words == CEILING(n_code_words + n_header_words, 2)
    IN With(scavenge(g, where + N_WORD_BYTES, n_header_words - 1), LAMBDA g1 :
       With(g1.mem[entry_points(where)], LAMBDA entry_point :
            [g |-> scav_code_entries(g1, entry_point), n |-> n_words]))

\* (transother[widetag])(object)
call_transother(fn, g, object) ==
    CASE fn = "trans_unboxed" -> trans_unboxed(g, object)
      [] fn = "trans_boxed" -> trans_boxed(g, object)
      [] fn = "trans_weak_pointer" -> trans_weak_pointer(g, object)
      [] fn = "trans_code_header" -> trans_code_header(g, object)
      [] fn = "trans_fun_header" -> trans_fun_header(g, object)
      [] fn = "trans_vector" -> trans_vector(g, object)
      [] fn = "trans_vector_unsigned_byte_8" -> trans_vector_unsigned_byte_8(g, object)
      [] OTHER -> trans_lose(g, object)

size_code_header(g, where) ==
    LET ncode_words == fixnum_value(g.mem[code_size(where)])
        nheader_words == HeaderValue(g.mem[where])
    IN CEILING(ncode_words + nheader_words, 2)

\* (sizetab[widetag])(where)
call_sizetab(fn, g, where) ==
    CASE fn = "size_unboxed" -> size_unboxed(g, where)
      [] fn = "size_boxed" -> size_boxed(g, where)
      [] fn = "size_weak_pointer" -> size_weak_pointer(g, where)
      [] fn = "size_code_header" -> size_code_header(g, where)
      [] fn = "size_vector" -> size_vector(g, where)
      [] fn = "size_vector_unsigned_byte_8" -> size_vector_unsigned_byte_8(g, where)
      [] OTHER -> size_lose(g, where)

\* A scav_other_pointer that does not store the new pointer into the slot.
scav_other_pointer_noStore(g, where, object) ==
    With(call_transother(transother(widetag_of(g.mem[native_pointer(object)])),
                         g, object),
         LAMBDA r :
    With(IF r.v # object
         THEN set_forwarding_pointer(r.g, native_pointer(object), r.v) ELSE r.g,
         LAMBDA g1 :
         [g |-> gc_assert(g1, is_lisp_pointer(r.v) /\ ~from_space_p(r.v)),
          n |-> 1]))

scav_other_pointer(g, where, object) ==
    With(call_transother(transother(widetag_of(g.mem[native_pointer(object)])),
                         gc_assert(g, is_lisp_pointer(object)), object),
         LAMBDA r :                            \* first = r.v
    With(IF r.v # object
         THEN set_forwarding_pointer(r.g, native_pointer(object), r.v) ELSE r.g,
         LAMBDA g1 :
    With(IF g1.lose THEN g1 ELSE Store(g1, where, r.v), LAMBDA g2 :
         [g |-> gc_assert(g2, is_lisp_pointer(r.v) /\ ~from_space_p(r.v)),
          n |-> 1])))

\* (scavtab[widetag])(where, object)
call_scavtab(fn, g, where, object) ==
    CASE fn = "scav_immediate" -> scav_immediate(g, where, object)
      [] fn = "scav_list_pointer" -> scav_list_pointer(g, where, object)
      [] fn = "scav_other_pointer" -> scav_other_pointer(g, where, object)
      [] fn = "scav_fun_pointer" -> scav_fun_pointer(g, where, object)
      [] fn = "scav_code_header" -> scav_code_header(g, where, object)
      [] fn = "scav_unboxed" -> scav_unboxed(g, where, object)
      [] fn = "scav_boxed" -> scav_boxed(g, where, object)
      [] fn = "scav_instance" -> scav_instance(g, where, object)
      [] fn = "scav_instance_pointer" -> scav_instance_pointer(g, where, object)
      [] fn = "scav_weak_pointer" -> scav_weak_pointer(g, where, object)
      [] OTHER -> scav_lose(g, where, object)

\* ---- scavenge ------------------------------------------------------------
\* One round of scavenge's loop at object_ptr: the new state and
\* n_words_scavenged.
scavenge_word(g, object_ptr) ==
    LET object == g.mem[object_ptr]
    IN IF is_lisp_pointer(object)
       THEN IF from_space_p(object)
            THEN LET ptr == native_pointer(object)
                 IN IF forwarding_pointer_p(g, ptr)
                    THEN [g |-> Store(g, object_ptr, forwarding_pointer_value(g, ptr)),
                          n |-> 1]
                    ELSE call_scavtab(scavtab(widetag_of(object)), g, object_ptr, object)
            ELSE [g |-> g, n |-> 1]
       ELSE IF fixnump(object)
       THEN [g |-> g, n |-> 1]
       ELSE call_scavtab(scavtab(widetag_of(object)), g, object_ptr, object)

RECURSIVE scavenge_loop(_, _, _)
scavenge_loop(g, object_ptr, end) ==
    IF g.lose THEN g
    ELSE IF object_ptr < end
    THEN With(scavenge_word(g, object_ptr), LAMBDA r :
              scavenge_loop(r.g, object_ptr + r.n * N_WORD_BYTES, end))
    ELSE gc_assert(g, object_ptr = end)

scavenge(g, start, n_words) ==
    scavenge_loop(g, start, start + n_words * N_WORD_BYTES)

\* ---- scan_weak_pointers --------------------------------------------------
\* A loop body that breaks the weak pointer without setting its broken flag.
scan_weak_pointer_noFlag(g, wp) ==
    LET value == g.mem[wp_value(wp)]
        first_pointer == native_pointer(value)
    IN IF ~(is_lisp_pointer(value) /\ from_space_p(value)) THEN g
       ELSE IF forwarding_pointer_p(g, first_pointer)
       THEN Store(g, wp_value(wp), forwarding_pointer_value(g, first_pointer))
       ELSE Store(g, wp_value(wp), NIL)

\* The body of scan_weak_pointers' loop for the weak pointer at wp.
scan_weak_pointer(g, wp) ==
    LET value == g.mem[wp_value(wp)]
        g0 == gc_assert(g, widetag_of(g.mem[wp]) = WEAK_POINTER_WIDETAG)
        first_pointer == native_pointer(value)
    IN IF g0.lose THEN g0
       ELSE IF ~(is_lisp_pointer(value) /\ from_space_p(value)) THEN g0
       ELSE IF forwarding_pointer_p(g0, first_pointer)
       THEN Store(g0, wp_value(wp), forwarding_pointer_value(g0, first_pointer))
       ELSE Store(Store(g0, wp_value(wp), NIL), wp_broken(wp), T)

RECURSIVE scan_weak_pointers_loop(_, _)
scan_weak_pointers_loop(g, wp) ==
    IF wp = NULL_wp \/ g.lose THEN g
    ELSE With(scan_weak_pointer(g, wp), LAMBDA g1 :
         With(g.mem[wp_next(wp)], LAMBDA next :
              scan_weak_pointers_loop(g1, next)))

scan_weak_pointers(g) == scan_weak_pointers_loop(g, g.weak_pointers)

\* ---- the heap collected ------------------------------------------------
\* Static space holds NIL, T and three root words; from space holds two
\* conses, a value cell, two weak pointers and a bignum whose data word has
\* the bits of a from-space pointer.
root_1 == static_space + 16
root_2 == static_space + 20
root_3 == static_space + 24
Roots == {root_1, root_2, root_3}

cons_A == from_space
cons_B == from_space + 8
cell_V == from_space + 16
weak_1 == from_space + 24
weak_2 == from_space + 40
bignum_N == from_space + 56

pA == make_lispobj(cons_A, LIST_POINTER_LOWTAG)
pB == make_lispobj(cons_B, LIST_POINTER_LOWTAG)
pV == make_lispobj(cell_V, OTHER_POINTER_LOWTAG)
pW1 == make_lispobj(weak_1, OTHER_POINTER_LOWTAG)
pW2 == make_lispobj(weak_2, OTHER_POINTER_LOWTAG)
pN == make_lispobj(bignum_N, OTHER_POINTER_LOWTAG)

Header(widetag, nwords) == (nwords - 1) * 2^N_WIDETAG_BITS + widetag

\* The slot contents a heap is drawn from.
HeapChoices ==
    [r1 : {pA, pV, pW1},
     r2 : {make_fixnum(1), pB, pW2, pA},
     r3 : {make_fixnum(1), pW2},
     a_car : {make_fixnum(1), pV, pN},
     a_cdr : {NIL, pB},
     b_car : {make_fixnum(2), pA},
     b_cdr : {NIL, pA},
     v : {make_fixnum(3), pB, pW1},
     w1 : {make_fixnum(1), pB, pV},
     w2 : {pA, pB}]

Heap(c) ==
    [a \in Addrs |->
        CASE a = static_space -> NIL
          [] a = static_space + 4 -> NIL
          [] a = root_1 -> c.r1
          [] a = root_2 -> c.r2
          [] a = root_3 -> c.r3
          [] a = cons_A -> c.a_car
          [] a = cons_A + 4 -> c.a_cdr
          [] a = cons_B -> c.b_car
          [] a = cons_B + 4 -> c.b_cdr
          [] a = cell_V -> Header(VALUE_CELL_HEADER_WIDETAG, 2)
          [] a = cell_V + 4 -> c.v
          [] a = weak_1 -> Header(WEAK_POINTER_WIDETAG, 4)
          [] a = wp_value(weak_1) -> c.w1
          [] a = wp_broken(weak_1) -> NIL
          [] a = weak_2 -> Header(WEAK_POINTER_WIDETAG, 4)
          [] a = wp_value(weak_2) -> c.w2
          [] a = wp_broken(weak_2) -> NIL
          [] a = bignum_N -> Header(BIGNUM_WIDETAG, 2)
          [] a = bignum_N + 4 -> pB
          [] OTHER -> 0]

\* The collector's state when collect_garbage begins: new space empty, no
\* weak pointer seen.
GcStart(mem) ==
    [mem |-> mem, free |-> new_space, weak_pointers |-> NULL_wp,
     lose |-> FALSE, log |-> <<>>, flips |-> 0, moved |-> 0]

GcInitWith(choices) ==
    /\ gmem0 \in {Heap(c) : c \in choices}
    /\ gc = GcStart(gmem0)
    /\ groots = Roots
    /\ ghere = new_space
    /\ gphase = "roots"
    /\ glast = [op |-> "none"]

GcInit == GcInitWith(HeapChoices)

\* The heap the other specifications leave untouched.
GcIdle ==
    GcInitWith({[r1 |-> pA, r2 |-> pB, r3 |-> pW2, a_car |-> pV, a_cdr |-> pB,
                 b_car |-> pA, b_cdr |-> NIL, v |-> pW1, w1 |-> pB, w2 |-> pA]})

GcOthersIdle == UNCHANGED <<bindVars, sigVars, worldVars, purVars>>

\* collect_garbage scavenges a root.
ScavengeRoot(r) ==
    /\ GcOthersIdle
    /\ gphase = "roots"
    /\ ~gc.lose
    /\ r \in groots
    /\ gc' = scavenge(gc, r, 1)
    /\ groots' = groots \ {r}
    /\ gphase' = IF groots' = {} THEN "newspace" ELSE "roots"
    /\ glast' = [op |-> "scavenge", start |-> r, n |-> 1, pre |-> gc]
    /\ UNCHANGED <<gmem0, ghere>>

\* scavenge_newspace: one round of
\* while (here < new_space_free_pointer) { next = new_space_free_pointer;
\*     scavenge(here, next - here); here = next; }
ScavengeNewspace ==
    /\ GcOthersIdle
    /\ gphase = "newspace"
    /\ ~gc.lose
    /\ ghere < gc.free
    /\ LET next == gc.free
           n == (next - ghere) \div N_WORD_BYTES
       IN /\ gc' = scavenge(gc, ghere, n)
          /\ ghere' = next
          /\ glast' = [op |-> "scavenge", start |-> ghere, n |-> n, pre |-> gc]
    /\ UNCHANGED <<gmem0, groots, gphase>>

\* New space is scavenged to its end: scan_weak_pointers, and the collection
\* is over.
ScanWeakPointers ==
    /\ GcOthersIdle
    /\ gphase = "newspace"
    /\ ~gc.lose
    /\ ~(ghere < gc.free)
    /\ gc' = scan_weak_pointers(gc)
    /\ gphase' = "done"
    /\ glast' = [op |-> "scan_weak_pointers", pre |-> gc]
    /\ UNCHANGED <<gmem0, groots, ghere>>

NextGc ==
    \/ \E r \in Roots : ScavengeRoot(r)
    \/ ScavengeNewspace
    \/ ScanWeakPointers

\* ---- scavenge over a range of objects -------------------------------------
\* The rounds of scavenge's loop from object_ptr to end: where the cursor
\* stood and the n_words_scavenged it got there.
RECURSIVE scavenge_rounds(_, _, _)
scavenge_rounds(g, object_ptr, end) ==
    IF g.lose \/ ~(object_ptr < end) THEN <<>>
    ELSE With(scavenge_word(g, object_ptr), LAMBDA r :
              <<[at |-> object_ptr, n |-> r.n]>>
                  \o scavenge_rounds(r.g, object_ptr + r.n * N_WORD_BYTES, end))

\* From space holds a layout (an instance of 17 slots, n_untagged_slots the
\* last) and a cons; the range scavenged is the start of new space, as
\* scavenge_newspace hands it over.
LayoutSlots == 17
range_layout == from_space
range_cons == from_space + (LayoutSlots + 1) * N_WORD_BYTES
pRangeLayout == make_lispobj(range_layout, INSTANCE_POINTER_LOWTAG)
pRangeCons == make_lispobj(range_cons, LIST_POINTER_LOWTAG)
\* A raw word with the bits of the header of a long bignum.
RawWord == 30 * 2^N_WIDETAG_BITS + BIGNUM_WIDETAG
\* The objects of a range: at most MaxObjects, and no more words than new
\* space has room for beside the copies of the layout and the cons.
MaxObjects == 3
RangeRoom ==
    (new_space_end - new_space) \div N_WORD_BYTES - (LayoutSlots + 1) - 2

Repeat(w, n) == [i \in 1..n |-> w]
Padded(ws) == IF Len(ws) % 2 = 1 THEN Append(ws, 0) ELSE ws

RangeKinds ==
    [kind : {"words", "list", "value_cell", "weak_pointer"}, n : {0}, layout : {FALSE}]
        \cup [kind : {"bignum"}, n : 1..3, layout : {FALSE}]
        \cup [kind : {"instance"}, n : 1..3, layout : BOOLEAN]

\* The words of one object; u is the number of untagged slots its layout
\* gives (the raw slots are the last ones).
ObjectWords(t, u) ==
    CASE t.kind = "words" -> <<make_fixnum(1), NIL>>
      [] t.kind = "list" -> <<pRangeCons, make_fixnum(1)>>
      [] t.kind = "value_cell" ->
             <<Header(VALUE_CELL_HEADER_WIDETAG, 2), make_fixnum(1)>>
      [] t.kind = "weak_pointer" ->
             <<Header(WEAK_POINTER_WIDETAG, 4), make_fixnum(1), NIL, 0>>
      [] t.kind = "bignum" ->
             Padded(<<t.n * 2^N_WIDETAG_BITS + BIGNUM_WIDETAG>> \o Repeat(RawWord, t.n))
      [] t.kind = "instance" ->
             LET raw == IF t.layout THEN u ELSE 0
             IN Padded(<<t.n * 2^N_WIDETAG_BITS + INSTANCE_HEADER_WIDETAG,
                         IF t.layout THEN pRangeLayout ELSE 0>>
                           \o Repeat(make_fixnum(2), t.n - 1 - raw)
                           \o Repeat(RawWord, raw))

WellFormed(t, u) == t.kind = "instance" /\ t.layout => t.n - 1 >= u

RECURSIVE RangeWords(_, _)
RangeWords(objs, u) ==
    IF objs = <<>> THEN <<>>
    ELSE ObjectWords(Head(objs), u) \o RangeWords(Tail(objs), u)

RangeChoices ==
    {c \in [objs : UNION {[1..k -> RangeKinds] : k \in 1..MaxObjects}, u : 0..1] :
        /\ \A i \in DOMAIN c.objs : WellFormed(c.objs[i], c.u)
        /\ Len(RangeWords(c.objs, c.u)) <= RangeRoom}

RangeHeap(c) ==
    LET ws == RangeWords(c.objs, c.u)
    IN [a \in Addrs |->
          CASE a = static_space -> NIL
            [] a = static_space + 4 -> NIL
            [] a = range_layout ->
                   LayoutSlots * 2^N_WIDETAG_BITS + INSTANCE_HEADER_WIDETAG
            [] a = layout_n_untagged_slots(pRangeLayout) -> make_fixnum(c.u)
            [] a = range_cons -> make_fixnum(1)
            [] a = range_cons + N_WORD_BYTES -> NIL
            [] a >= new_space /\ a < new_space + Len(ws) * N_WORD_BYTES ->
                   ws[(a - new_space) \div N_WORD_BYTES + 1]
            [] OTHER -> 0]

RangeInit ==
    \E c \in RangeChoices :
        /\ gmem0 = RangeHeap(c)
        /\ gc = [GcStart(gmem0) EXCEPT
                    !.free = new_space + Len(RangeWords(c.objs, c.u)) * N_WORD_BYTES]
        /\ groots = {}
        /\ ghere = new_space
        /\ gphase = "range"
        /\ glast = [op |-> "none", objs |-> c.objs, u |-> c.u]

\* scavenge(here, next - here) over the objects of new space.
ScavengeRange ==
    /\ GcOthersIdle
    /\ gphase = "range"
    /\ glast.op = "none"
    /\ LET next == gc.free
           n == (next - ghere) \div N_WORD_BYTES
       IN /\ gc' = scavenge(gc, ghere, n)
          /\ glast' = [op |-> "scavenge", start |-> ghere, n |-> n, pre |-> gc,
                       objs |-> glast.objs,
                       rounds |-> scavenge_rounds(gc, ghere, next)]
    /\ UNCHANGED <<gmem0, groots, ghere, gphase>>

NextRange == ScavengeRange

\* ---- the next collection -------------------------------------------------
\* collect_garbage ends by zeroing from space and making new space the
\* current dynamic space, and the next collect_garbage takes the current
\* dynamic space as its from space and the other semispace as its new space.
\* The model keeps each role at a fixed address: exchanging the roles is
\* exchanging the addresses of the two semispaces in every descriptor, and
\* gc.flips counts the exchanges, so that an address of the model names a
\* place in the first semispace or in the second.
MaxFlips == 1
SpaceShift == new_space - from_space
InSemispaces(a) == a >= from_space /\ a < new_space_end
Exchanged(a) == IF a < new_space THEN a + SpaceShift ELSE a - SpaceShift
ExchangedWord(w) ==
    IF is_lisp_pointer(w) /\ InSemispaces(native_pointer(w))
    THEN make_lispobj(Exchanged(native_pointer(w)), lowtag_of(w))
    ELSE w
\* The place in the machine an address of the model names.
PlaceOf(flips, a) ==
    IF flips % 2 = 1 /\ InSemispaces(a) THEN Exchanged(a) ELSE a

Flip ==
    /\ GcOthersIdle
    /\ gphase = "done"
    /\ ~gc.lose
    /\ gc.flips < MaxFlips
    /\ LET mem1 == [a \in Addrs |->
                       IF a >= new_space /\ a < new_space_end THEN 0
                       ELSE IF a >= from_space /\ a < from_space_free_pointer
                       THEN ExchangedWord(gc.mem[Exchanged(a)])
                       ELSE ExchangedWord(gc.mem[a])]
       IN /\ gc' = [GcStart(mem1) EXCEPT !.flips = gc.flips + 1,
                                         !.moved = Len(gc.log)]
          /\ glast' = [op |-> "flip", pre |-> gc]
    /\ groots' = Roots
    /\ ghere' = new_space
    /\ gphase' = "roots"
    /\ UNCHANGED gmem0

NextTwice ==
    \/ NextGc
    \/ Flip

(***************************************************************************)
(*                          The specifications                             *)
(***************************************************************************)

\* Every thread starts from create_thread_struct; each specification then
\* exercises one part of the runtime and leaves the others at rest.
(***************************************************************************)
(*          trans_list on lists of from-space conses                       *)
(***************************************************************************)

NumConses == 3
ConsAt(i) == from_space + (i - 1) * 2 * N_WORD_BYTES
ConsPtr(i) == make_lispobj(ConsAt(i), LIST_POINTER_LOWTAG)
ConsIndexes == 1..NumConses

\* A heap of NumConses conses in from space: cons i has the fixnum i as its
\* car, and its cdr is NIL, a fixnum or a pointer to one of the conses.
ListHeap(cdrs) ==
    [a \in Addrs |->
        IF a = static_space \/ a = static_space + 4 THEN NIL
        ELSE IF \E i \in ConsIndexes : a = ConsAt(i)
        THEN make_fixnum(CHOOSE i \in ConsIndexes : a = ConsAt(i))
        ELSE IF \E i \in ConsIndexes : a = ConsAt(i) + N_WORD_BYTES
        THEN cdrs[CHOOSE i \in ConsIndexes : a = ConsAt(i) + N_WORD_BYTES]
        ELSE 0]

ListInit ==
    /\ gmem0 \in {ListHeap(cdrs) :
                     cdrs \in [ConsIndexes ->
                                  {NIL, make_fixnum(7)} \cup {ConsPtr(i) : i \in ConsIndexes}]}
    /\ gc = GcStart(gmem0)
    /\ groots = {}
    /\ ghere = new_space
    /\ gphase = "list"
    /\ glast = [op |-> "none"]

\* scav_list_pointer's call of trans_list, on a from-space cons that is not
\* forwarded.
TransList(i) ==
    /\ GcOthersIdle
    /\ gphase = "list"
    /\ ~gc.lose
    /\ ~forwarding_pointer_p(gc, ConsAt(i))
    /\ LET r == trans_list(gc, ConsPtr(i))
       IN /\ gc' = r.g
          /\ glast' = [op |-> "trans_list", object |-> ConsPtr(i), pre |-> gc,
                       v |-> r.v]
    /\ UNCHANGED <<gmem0, groots, ghere, gphase>>

NextList == \E i \in ConsIndexes : TransList(i)

(***************************************************************************)
(*            The collection of a heap with a code object                  *)
(***************************************************************************)

MaxEntries == 2
CodeHeaderWords == 6
FunWords == 8
CodeBase == from_space
FunAt(i) == CodeBase + (CodeHeaderWords + (i - 1) * FunWords) * N_WORD_BYTES
FunPtr(i) == make_lispobj(FunAt(i), FUN_POINTER_LOWTAG)
pCode == make_lispobj(CodeBase, OTHER_POINTER_LOWTAG)
cons_X == FunAt(MaxEntries + 1)
pX == make_lispobj(cons_X, LIST_POINTER_LOWTAG)

\* The entry-point chains: every order of the functions 1..n, n up to
\* MaxEntries.
Chains ==
    UNION {{q \in [1..n -> 1..n] : \A i, j \in 1..n : q[i] = q[j] => i = j} :
              n \in 0..MaxEntries}
FunPtrs(n) == {FunPtr(i) : i \in 1..n}

CodeChoices ==
    UNION {[chain : {q},
            r1 : {pCode} \cup FunPtrs(Len(q)),
            r2 : {make_fixnum(1), pCode} \cup FunPtrs(Len(q)),
            r3 : {make_fixnum(1), pX},
            x_car : {make_fixnum(2), pCode} \cup FunPtrs(Len(q)),
            debug : {make_fixnum(3), pX},
            name : {make_fixnum(4), pX}] : q \in Chains}

\* From space holds one code object, its functions chained in the order
\* c.chain, and behind it one cons.
CodeHeap(c) ==
    LET n == Len(c.chain)
        pos(i) == CHOOSE k \in 1..n : c.chain[k] = i
        fun(a) == CHOOSE i \in 1..n : a >= FunAt(i) /\ a < FunAt(i + 1)
    IN [a \in Addrs |->
           CASE a = static_space -> NIL
             [] a = static_space + 4 -> NIL
             [] a = root_1 -> c.r1
             [] a = root_2 -> c.r2
             [] a = root_3 -> c.r3
             [] a = CodeBase -> CodeHeaderWords * 2^N_WIDETAG_BITS + CODE_HEADER_WIDETAG
             [] a = code_size(CodeBase) -> make_fixnum(n * FunWords)
             [] a = entry_points(CodeBase) -> IF n = 0 THEN NIL ELSE FunPtr(c.chain[1])
             [] a = CodeBase + 3 * N_WORD_BYTES -> c.debug
             [] a = cons_X -> c.x_car
             [] a = cons_X + N_WORD_BYTES -> NIL
             [] a >= FunAt(1) /\ a < FunAt(n + 1) ->
                    LET i == fun(a)
                    IN CASE a = FunAt(i) ->
                                ((FunAt(i) - CodeBase) \div N_WORD_BYTES) * 2^N_WIDETAG_BITS
                                    + SIMPLE_FUN_HEADER_WIDETAG
                         [] a = fun_self(FunAt(i)) -> FUN_RAW_ADDR_OFFSET + FunPtr(i)
                         [] a = fun_next(FunAt(i)) ->
                                IF pos(i) = n THEN NIL ELSE FunPtr(c.chain[pos(i) + 1])
                         [] a = fun_name(FunAt(i)) ->
                                IF i = 1 THEN c.name ELSE make_fixnum(4)
                         [] a = fun_arglist(FunAt(i)) -> NIL
                         [] OTHER -> 0
             [] OTHER -> 0]

CodeInit ==
    /\ gmem0 \in {CodeHeap(c) : c \in CodeChoices}
    /\ gc = GcStart(gmem0)
    /\ groots = Roots
    /\ ghere = new_space
    /\ gphase = "roots"
    /\ glast = [op |-> "none"]

\* ==========================================================================
\* purify.c: purify moves every object reachable from the roots out of the
\* dynamic space, into read-only or static space.
\* ==========================================================================
WORDS_PER_CONS == CEILING(2, 2)

\* The spaces of purify. The dynamic space is the collector's from space;
\* the static space runs up to it.
READ_ONLY_SPACE_START == 512
READ_ONLY_SPACE_END == 640
STATIC_SPACE_START == static_space
STATIC_SPACE_END == from_space
DYNAMIC_SPACE_START == from_space
DYNAMIC_SPACE_SIZE == from_space_free_pointer - from_space
current_dynamic_space == DYNAMIC_SPACE_START

\* The frame of the call: where the parameters static_roots and
\* read_only_roots live.
addr_static_roots == 16
addr_read_only_roots == 20

PAddrs ==
    {addr_static_roots, addr_read_only_roots}
        \cup WordsOf(STATIC_SPACE_START, STATIC_SPACE_END)
        \cup WordsOf(DYNAMIC_SPACE_START, DYNAMIC_SPACE_START + DYNAMIC_SPACE_SIZE)
        \cup WordsOf(READ_ONLY_SPACE_START, READ_ONLY_SPACE_END)

gc_abort(p) == [p EXCEPT !.lose = TRUE]

p_forwarding_pointer_p(p, obj) ==
    LET ptr == native_pointer(obj)
    IN \/ p.static_end <= ptr /\ ptr <= p.static_free
       \/ p.read_only_end <= ptr /\ ptr <= p.read_only_free

dynamic_pointer_p(p, ptr) ==
    ptr >= DYNAMIC_SPACE_START /\ ptr < p.dynamic_space_free_pointer

\* new = read_only_free; read_only_free += n (or the same of static_free).
\* The code does not check for the end of the space; the model's spaces are
\* small, and running out of one is a fault.
p_alloc(p, constant, n) ==
    IF constant
    THEN [p |-> [p EXCEPT !.read_only_free = @ + n * N_WORD_BYTES,
                          !.lose = @ \/ p.read_only_free + n * N_WORD_BYTES
                                            > READ_ONLY_SPACE_END],
          v |-> p.read_only_free]
    ELSE [p |-> [p EXCEPT !.static_free = @ + n * N_WORD_BYTES,
                          !.lose = @ \/ p.static_free + n * N_WORD_BYTES
                                            > STATIC_SPACE_END],
          v |-> p.static_free]

bcopy(p, old, new, nwords) == memcpy(p, new, old, nwords)

RECURSIVE pscav(_, _, _, _)

\* A ptrans_boxed that deposits no forwarding pointer.
ptrans_boxed_noForward(p, thing, header, constant) ==
    LET nwords == 1 + HeaderValue(header)
        old == native_pointer(thing)
    IN With(p_alloc(p, constant, CEILING(nwords, 2)),
            LAMBDA a :
                IF a.p.lose THEN [p |-> a.p, v |-> thing]
                ELSE LET result == make_lispobj(a.v, lowtag_of(thing))
                     IN [p |-> pscav(bcopy(a.p, old, a.v, nwords),
                                     a.v, nwords, constant).p,
                         v |-> result])

ptrans_boxed(p, thing, header, constant) ==
    LET nwords == 1 + HeaderValue(header)
        old == native_pointer(thing)
    IN With(p_alloc(p, constant, CEILING(nwords, 2)),
            LAMBDA a :
                IF a.p.lose THEN [p |-> a.p, v |-> thing]
                ELSE LET result == make_lispobj(a.v, lowtag_of(thing))
                     IN [p |-> pscav(Store(bcopy(a.p, old, a.v, nwords),
                                           old, result),
                                     a.v, nwords, constant).p,
                         v |-> result])

\* An instance placed by the caller's context instead of the pure flag.
ptrans_instance_byContext(p, thing, header, constant) ==
    ptrans_boxed(p, thing, header, constant)

ptrans_instance(p, thing, header, constant) ==
    LET layout == p.mem[instance_slot(native_pointer(thing), 0)]
        pure == p.mem[layout_pure(layout)]
    IN CASE pure = T -> ptrans_boxed(p, thing, header, TRUE)
         [] pure = NIL -> ptrans_boxed(p, thing, header, FALSE)
         [] pure = 0 ->
                LET nwords == 1 + HeaderValue(header)
                    old == native_pointer(thing)
                IN With(p_alloc(p, FALSE, CEILING(nwords, 2)),
                        LAMBDA a :
                            IF a.p.lose THEN [p |-> a.p, v |-> thing]
                            ELSE LET result == make_lispobj(a.v, lowtag_of(thing))
                                 IN [p |-> pscav(Store(bcopy(a.p, old, a.v, nwords),
                                                       old, result),
                                                 a.v, nwords, TRUE).p,
                                     v |-> result])
         [] OTHER -> [p |-> gc_abort(p), v |-> NIL]

ptrans_unboxed(p, thing, header) ==
    LET nwords == 1 + HeaderValue(header)
        old == native_pointer(thing)
    IN With(p_alloc(p, TRUE, CEILING(nwords, 2)),
            LAMBDA a :
                IF a.p.lose THEN [p |-> a.p, v |-> thing]
                ELSE LET result == make_lispobj(a.v, lowtag_of(thing))
                     IN [p |-> Store(bcopy(a.p, old, a.v, nwords), old, result),
                         v |-> result])

\* The do-while of ptrans_list: one cons per turn, until the cdr is not a
\* list in dynamic space or is already moved. Yields the state and length.
RECURSIVE ptrans_list_loop(_, _, _, _)
ptrans_list_loop(p, thing, constant, length) ==
    LET old == native_pointer(thing)
    IN With(p_alloc(p, constant, WORDS_PER_CONS),
            LAMBDA a :
                IF a.p.lose THEN [p |-> a.p, length |-> length]
                ELSE LET new == a.v
                         cdr == a.p.mem[old + N_WORD_BYTES]
                         q == Store(Store(Store(a.p, new, a.p.mem[old]),
                                          new + N_WORD_BYTES, cdr),
                                    old, make_lispobj(new, LIST_POINTER_LOWTAG))
                         logged == [q EXCEPT !.log = Append(@, <<old, new>>)]
                     IN IF /\ lowtag_of(cdr) = LIST_POINTER_LOWTAG
                           /\ dynamic_pointer_p(logged, cdr)
                           /\ ~p_forwarding_pointer_p(logged,
                                  logged.mem[native_pointer(cdr)])
                        THEN ptrans_list_loop(logged, cdr, constant, length + 1)
                        ELSE [p |-> logged, length |-> length + 1])

\* A ptrans_list that does not scavenge the list it copied.
ptrans_list_noScavenge(p, thing, constant) ==
    LET orig == IF constant THEN p.read_only_free ELSE p.static_free
    IN With(ptrans_list_loop(p, thing, constant, 0),
            LAMBDA r :
                IF r.p.lose THEN [p |-> r.p, v |-> thing]
                ELSE [p |-> r.p,
                      v |-> make_lispobj(orig, LIST_POINTER_LOWTAG)])

ptrans_list(p, thing, constant) ==
    LET orig == IF constant THEN p.read_only_free ELSE p.static_free
    IN With(ptrans_list_loop(p, thing, constant, 0),
            LAMBDA r :
                IF r.p.lose THEN [p |-> r.p, v |-> thing]
                ELSE [p |-> pscav(r.p, orig, r.length * WORDS_PER_CONS,
                                  constant).p,
                      v |-> make_lispobj(orig, LIST_POINTER_LOWTAG)])

\* Of the kinds ptrans_otherptr tells apart, the model's heaps hold bignums,
\* value cells and weak pointers; a header of another kind is outside the
\* model and is reported as a fault.
ptrans_otherptr(p, thing, header, constant) ==
    CASE widetag_of(header) = BIGNUM_WIDETAG -> ptrans_unboxed(p, thing, header)
      [] widetag_of(header) \in {VALUE_CELL_HEADER_WIDETAG, WEAK_POINTER_WIDETAG} ->
             ptrans_boxed(p, thing, header, FALSE)
      [] OTHER -> [p |-> gc_abort(p), v |-> NIL]

\* One turn of pscav's loop: the word at addr. Yields the state and count.
pscav_word(p, addr, constant) ==
    LET thing == p.mem[addr]
    IN IF is_lisp_pointer(thing)
       THEN IF dynamic_pointer_p(p, thing)
            THEN LET thingp == native_pointer(thing)
                     header == p.mem[thingp]
                 IN IF is_lisp_pointer(header) /\ p_forwarding_pointer_p(p, header)
                    THEN [p |-> Store(p, addr, header), count |-> 1]
                    ELSE With(CASE lowtag_of(thing) = LIST_POINTER_LOWTAG ->
                                       ptrans_list(p, thing, constant)
                                [] lowtag_of(thing) = INSTANCE_POINTER_LOWTAG ->
                                       ptrans_instance(p, thing, header, constant)
                                [] lowtag_of(thing) = OTHER_POINTER_LOWTAG ->
                                       ptrans_otherptr(p, thing, header, constant)
                                [] OTHER -> [p |-> gc_abort(p), v |-> thing],
                              LAMBDA r :
                                  [p |-> IF r.p.lose THEN r.p
                                         ELSE Store(r.p, addr, r.v),
                                   count |-> 1])
            ELSE [p |-> p, count |-> 1]
       ELSE IF thing % 4 # 0
       THEN CASE widetag_of(thing) = BIGNUM_WIDETAG ->
                     [p |-> p, count |-> HeaderValue(thing) + 1]
              [] widetag_of(thing) = WEAK_POINTER_WIDETAG ->
                     [p |-> pscav(p, addr + N_WORD_BYTES, 2, constant).p,
                      count |-> 4]
              [] widetag_of(thing) \in {VALUE_CELL_HEADER_WIDETAG,
                                        INSTANCE_HEADER_WIDETAG} ->
                     [p |-> p, count |-> 1]
              [] OTHER -> [p |-> gc_abort(p), count |-> 1]
       ELSE [p |-> p, count |-> 1]

\* Yields the state and the address after the last word scavenged.
pscav(p, addr, nwords, constant) ==
    IF p.lose \/ nwords <= 0 THEN [p |-> p, addr |-> addr]
    ELSE With(pscav_word(p, addr, constant),
              LAMBDA r : pscav(r.p, addr + r.count * N_WORD_BYTES,
                               nwords - r.count, constant))

\* while (clean != static_free) clean = pscav(clean, static_free - clean, 0);
\* no block of later work is ever queued, so the outer loop runs once.
RECURSIVE purify_clean(_, _)
purify_clean(p, clean) ==
    IF p.lose \/ clean = p.static_free THEN p
    ELSE IF clean > p.static_free THEN gc_abort(p)
    ELSE With(pscav(p, clean, (p.static_free - clean) \div N_WORD_BYTES, FALSE),
              LAMBDA r : purify_clean(r.p, r.addr))

os_zero(p, addr, length) ==
    [p EXCEPT !.mem = [a \in DOMAIN p.mem |->
                          IF a >= addr /\ a < addr + length THEN 0 ELSE p.mem[a]]]

\* What of purify follows the test of FREE_INTERRUPT_CONTEXT_INDEX.
purify_body(p) ==
    LET p0 == [p EXCEPT !.dynamic_space_free_pointer = p.ALLOCATION_POINTER,
                        !.read_only_end = p.READ_ONLY_SPACE_FREE_POINTER,
                        !.read_only_free = p.READ_ONLY_SPACE_FREE_POINTER,
                        !.static_end = p.STATIC_SPACE_FREE_POINTER,
                        !.static_free = p.STATIC_SPACE_FREE_POINTER]
    IN With(pscav(p0, addr_static_roots, 1, FALSE).p,
        LAMBDA p1 : With(pscav(p1, addr_read_only_roots, 1, TRUE).p,
        LAMBDA p2 : With(purify_clean(p2, STATIC_SPACE_START),
        LAMBDA p3 :
            IF p3.lose THEN p3
            ELSE [os_zero(p3, current_dynamic_space, DYNAMIC_SPACE_SIZE)
                     EXCEPT !.READ_ONLY_SPACE_FREE_POINTER = p3.read_only_free,
                            !.STATIC_SPACE_FREE_POINTER = p3.static_free,
                            !.ALLOCATION_POINTER = current_dynamic_space,
                            !.dynamic_space_free_pointer = current_dynamic_space])))

\* A purify that does not look at FREE_INTERRUPT_CONTEXT_INDEX.
purify_noTest(p) == [p |-> purify_body(p), ret |-> 0]

purify(p) ==
    IF fixnum_value(p.FREE_INTERRUPT_CONTEXT_INDEX) # 0
    THEN [p |-> p, ret |-> 0]
    ELSE [p |-> purify_body(p), ret |-> 0]

\* ---- the heaps purify is run on ---------------------------------------
layout_L == READ_ONLY_SPACE_START
pL == make_lispobj(layout_L, INSTANCE_POINTER_LOWTAG)
LayoutWords == 18
inst_I == from_space + 64
pI == make_lispobj(inst_I, INSTANCE_POINTER_LOWTAG)
InstWords == 4
PureOther == make_fixnum(1)

PurChoices ==
    [r1 : {make_fixnum(1), pA, pI}, r2 : {make_fixnum(2), pV},
     sroot : {NIL, pA, pI}, roroot : {NIL, pA, pI, pN},
     a_car : {make_fixnum(3), pI, pN}, a_cdr : {NIL, pA, make_fixnum(7)},
     v : {make_fixnum(4), pA, pV}, i1 : {make_fixnum(5), pA, pI},
     pure : {T, NIL, 0, PureOther}, fici : {0, 1}]

PurHeap(c) ==
    [a \in PAddrs |->
        CASE a = addr_static_roots -> c.sroot
          [] a = addr_read_only_roots -> c.roroot
          [] a = static_space -> NIL
          [] a = static_space + 4 -> NIL
          [] a = root_1 -> c.r1
          [] a = root_2 -> c.r2
          [] a = layout_L -> Header(INSTANCE_HEADER_WIDETAG, LayoutWords)
          [] a = instance_slot(layout_L, 0) -> pL
          [] a = layout_pure(pL) -> c.pure
          [] a = layout_n_untagged_slots(pL) -> make_fixnum(0)
          [] a = cons_A -> c.a_car
          [] a = cons_A + 4 -> c.a_cdr
          [] a = cell_V -> Header(VALUE_CELL_HEADER_WIDETAG, 2)
          [] a = cell_V + 4 -> c.v
          [] a = bignum_N -> Header(BIGNUM_WIDETAG, 2)
          [] a = bignum_N + 4 -> pA
          [] a = inst_I -> Header(INSTANCE_HEADER_WIDETAG, InstWords)
          [] a = instance_slot(inst_I, 0) -> pL
          [] a = instance_slot(inst_I, 1) -> c.i1
          [] a = instance_slot(inst_I, 2) -> make_fixnum(6)
          [] OTHER -> 0]

\* The state purify is called in: its own globals still zero, the free
\* pointers in their symbols.
PurStart(c) ==
    [mem |-> PurHeap(c),
     read_only_free |-> 0, read_only_end |-> 0,
     static_free |-> 0, static_end |-> 0,
     dynamic_space_free_pointer |-> inst_I + InstWords * N_WORD_BYTES,
     ALLOCATION_POINTER |-> inst_I + InstWords * N_WORD_BYTES,
     READ_ONLY_SPACE_FREE_POINTER |-> layout_L + LayoutWords * N_WORD_BYTES,
     STATIC_SPACE_FREE_POINTER |-> static_space_end,
     FREE_INTERRUPT_CONTEXT_INDEX |-> make_fixnum(c.fici),
     lose |-> FALSE, log |-> <<>>]

PurInitWith(choices) ==
    /\ pur \in {PurStart(c) : c \in choices}
    /\ plast = [op |-> "none"]

PurInit == PurInitWith(PurChoices)

\* The heap the other specifications leave untouched.
PurIdle ==
    PurInitWith({[r1 |-> pA, r2 |-> pV, sroot |-> NIL, roroot |-> NIL,
                  a_car |-> pI, a_cdr |-> NIL, v |-> pA, i1 |-> pA,
                  pure |-> NIL, fici |-> 0]})

PurOthersIdle == UNCHANGED <<bindVars, sigVars, worldVars, gcVars>>

\* The call of purify.
Purify ==
    /\ PurOthersIdle
    /\ plast.op = "none"
    /\ \E r \in {purify(pur)} :
           /\ pur' = r.p
           /\ plast' = [op |-> "purify", pre |-> pur, ret |-> r.ret]

NextPurify == Purify

\* ---- purify.c: work put off with pscav_later ------------------------------
\* A later block holds LATERBLOCKSIZE slots (1020 in the source; the model's
\* blocks are small so that they fill up).  A slot is one word, read as a
\* count or as a pointer: a range of one word takes one slot (its pointer),
\* any other range two (its count, then its pointer).
LATERBLOCKSIZE == 4
LATERMAXCOUNT == 10
\* How often pscav_later is called in one purify, and how often an object is
\* moved to static space behind the cursor.
MaxLaters == 3
MaxGrowth == 1
NULL_later == 0
\* The content of a slot malloc returned and nobody wrote.
JunkSlot == -1
\* The k-th call is handed the words from LaterBase(k) on; the ranges of
\* different calls are apart.
LaterStride == 3 * LATERMAXCOUNT
LaterBase(k) == 100 + k * LaterStride
LaterWords == LaterBase(1)..(LaterBase(MaxLaters + 1) - 1)
LaterCounts ==
    {1, 2, 3, LATERMAXCOUNT, LATERMAXCOUNT + 1, 2 * LATERMAXCOUNT,
     2 * LATERMAXCOUNT + 1}
NewLaterBlock == [i \in 1..LATERBLOCKSIZE |-> JunkSlot]

\* u[i] of the block at the head of list, written.
SetSlot(list, i, w) == [list EXCEPT ![1][i + 1] = w]

\* The branch of pscav_later for a count of at most LATERMAXCOUNT.
pscav_later_store(p, where, count) ==
    LET fresh == \/ p.later_blocks = <<>>
                 \/ p.later_count = LATERBLOCKSIZE
                 \/ (p.later_count = LATERBLOCKSIZE - 1 /\ count > 1)
        closed == IF p.later_blocks # <<>> /\ p.later_count < LATERBLOCKSIZE
                  THEN SetSlot(p.later_blocks, p.later_count, NULL_later)
                  ELSE p.later_blocks
        p1 == IF fresh
              THEN [p EXCEPT !.later_blocks = <<NewLaterBlock>> \o closed,
                             !.later_count = 0]
              ELSE p
        p2 == IF count # 1
              THEN [p1 EXCEPT !.later_blocks = SetSlot(@, p1.later_count, count),
                              !.later_count = @ + 1]
              ELSE p1
    IN [p2 EXCEPT !.later_blocks = SetSlot(@, p2.later_count, where),
                  !.later_count = @ + 1]

\* pscav_later(where, count): above LATERMAXCOUNT the loop queues pieces of
\* LATERMAXCOUNT words while more than LATERMAXCOUNT words remain, and the
\* function returns.
RECURSIVE pscav_later_loop(_, _, _)
pscav_later_loop(p, where, count) ==
    IF count > LATERMAXCOUNT
    THEN pscav_later_loop(pscav_later_store(p, where, LATERMAXCOUNT),
                          where + LATERMAXCOUNT, count - LATERMAXCOUNT)
    ELSE p

pscav_later(p, where, count) ==
    IF count > LATERMAXCOUNT
    THEN pscav_later_loop(p, where, count)
    ELSE pscav_later_store(p, where, count)

\* pscav(ptr, count, 1) on a range of descriptor words: each word of the
\* range is scavenged as constant (history: how often).
pscav_constant(p, ptr, count) ==
    IF \A w \in ptr..(ptr + count - 1) : w \in LaterWords
    THEN [p EXCEPT !.scavenged =
                       [w \in LaterWords |->
                           IF w >= ptr /\ w < ptr + count THEN @[w] + 1 ELSE @[w]],
                   !.in_pscav = TRUE]
    ELSE [p EXCEPT !.lose = TRUE]

\* The body of the for loop over a block, at slot i: the state and the
\* next i.
purify_later_slot(p) ==
    LET u == p.laters[1]
        i == p.i
    IN IF u[i + 1] = JunkSlot THEN [p EXCEPT !.lose = TRUE]
       ELSE IF u[i + 1] = 0 THEN [p EXCEPT !.i = i + 1, !.in_pscav = FALSE]
       ELSE IF u[i + 1] <= LATERMAXCOUNT
       THEN IF i + 1 >= LATERBLOCKSIZE \/ u[i + 2] = JunkSlot
            THEN [p EXCEPT !.lose = TRUE]
            ELSE [pscav_constant(p, u[i + 2], u[i + 1]) EXCEPT !.i = i + 2]
       ELSE [pscav_constant(p, u[i + 1], 1) EXCEPT !.i = i + 1]

LaterStart ==
    [later_blocks |-> <<>>, later_count |-> 0,
     laters |-> <<>>, count |-> 0, i |-> 0,
     clean |-> 0, static_free |-> 0,
     pc |-> "static", in_pscav |-> TRUE, lose |-> FALSE,
     handed |-> <<>>, scavenged |-> [w \in LaterWords |-> 0]]

LaterInit ==
    /\ pur = LaterStart
    /\ plast = [op |-> "none"]

\* A pscav or ptrans that is running calls pscav_later(where, count).
PscavLater(count) ==
    /\ PurOthersIdle
    /\ pur.pc \in {"static", "drain"}
    /\ pur.in_pscav
    /\ ~pur.lose
    /\ Len(pur.handed) < MaxLaters
    /\ LET where == LaterBase(Len(pur.handed) + 1)
       IN /\ pur' = [pscav_later(pur, where, count)
                         EXCEPT !.handed = Append(@, [where |-> where, count |-> count])]
          /\ plast' = [op |-> "pscav_later", where |-> where, count |-> count]

\* A pscav that is running moves an object to static space: static_free
\* goes up.
StaticGrows ==
    /\ PurOthersIdle
    /\ pur.pc \in {"static", "drain"}
    /\ pur.in_pscav
    /\ ~pur.lose
    /\ pur.static_free < MaxGrowth
    /\ pur' = [pur EXCEPT !.static_free = @ + 1]
    /\ plast' = [op |-> "ptrans"]

\* while (clean != static_free) clean = pscav(...) has come to its end;
\* laters = later_blocks; count = later_count; later_blocks = NULL;
\* later_count = 0.
LaterDrainBegin ==
    /\ PurOthersIdle
    /\ pur.pc = "static"
    /\ ~pur.lose
    /\ pur' = [pur EXCEPT !.clean = pur.static_free,
                          !.laters = pur.later_blocks,
                          !.count = pur.later_count,
                          !.i = 0,
                          !.later_blocks = <<>>,
                          !.later_count = 0,
                          !.in_pscav = FALSE,
                          !.pc = "drain"]
    /\ plast' = [op |-> "drain_begin"]

\* One round of for (i = 0; i < count; i++).
LaterDrainSlot ==
    /\ PurOthersIdle
    /\ pur.pc = "drain"
    /\ ~pur.lose
    /\ pur.laters # <<>>
    /\ pur.i < pur.count
    /\ pur' = purify_later_slot(pur)
    /\ plast' = [op |-> "drain_slot", i |-> pur.i]

\* next = laters->next; free(laters); laters = next; count = LATERBLOCKSIZE.
LaterDrainNextBlock ==
    /\ PurOthersIdle
    /\ pur.pc = "drain"
    /\ ~pur.lose
    /\ pur.laters # <<>>
    /\ ~(pur.i < pur.count)
    /\ pur' = [pur EXCEPT !.laters = Tail(@), !.count = LATERBLOCKSIZE,
                          !.i = 0, !.in_pscav = FALSE]
    /\ plast' = [op |-> "drain_next"]

\* while (clean != static_free || later_blocks != NULL): around again, or
\* on to the cleanup and the return of purify.
LaterDrainEnd ==
    /\ PurOthersIdle
    /\ pur.pc = "drain"
    /\ ~pur.lose
    /\ pur.laters = <<>>
    /\ pur' = [pur EXCEPT !.pc = IF pur.clean # pur.static_free
                                    \/ pur.later_blocks # <<>>
                                 THEN "static" ELSE "done",
                          !.in_pscav = (pur.clean # pur.static_free)]
    /\ plast' = [op |-> "drain_end"]

NextLater ==
    \/ \E count \in LaterCounts : PscavLater(count)
    \/ StaticGrows
    \/ LaterDrainBegin
    \/ LaterDrainSlot
    \/ LaterDrainNextBlock
    \/ LaterDrainEnd

\* ---- destroy_thread on any list -------------------------------------------
\* destroy_thread(th) is called by create_thread when clone fails (th is on
\* no list and its pid is 0) and by the parent's waitpid loop for a child
\* that has exited (th is on all_threads, in whatever state it died in).
\* The caller stands at the call; the list is any list of records.
DestroyLists ==
    {<<>>} \cup {<<a>> : a \in Threads}
        \cup {<<x[1], x[2]>> : x \in {y \in Threads \X Threads : y[1] # y[2]}}
        \cup {<<x[1], x[2], x[3]>> :
                  x \in {y \in Threads \X Threads \X Threads :
                            y[1] # y[2] /\ y[1] # y[3] /\ y[2] # y[3]}}
OnList(list, t) == \E i \in DOMAIN list : list[i] = t

DestroyInit ==
    /\ all_threads \in DestroyLists
    /\ \E died \in {STATE_RUNNING, STATE_STOPPING, STATE_STOPPED} :
           th_state = [t \in Threads |->
                          IF t = Created
                          THEN (IF OnList(all_threads, Created) THEN died
                                ELSE STATE_STOPPED)
                          ELSE IF t = Creator \/ OnList(all_threads, t)
                          THEN STATE_RUNNING ELSE NoThread]
    /\ th_pid = [t \in Threads |->
                    IF t = Created /\ ~OnList(all_threads, Created) THEN 0 ELSE t]
    /\ all_threads_lock = 0
    /\ wpc = [t \in Threads |->
                 IF t = Created THEN "unborn"
                 ELSE IF t = Creator THEN "destroy_lock" ELSE "lisp"]
    /\ whpc = [t \in Threads |-> "none"]
    /\ whfrom = [t \in Threads |-> "none"]
    /\ wth = [t \in Threads |-> ThreadInit]
    /\ wsigpend = {}
    /\ wstopped = {}
    /\ wdue = [t \in Threads |-> "none"]
    /\ wcol = NoCol
    /\ wlast = [op |-> "none"]

NextDestroy ==
    \/ DestroyThreadLock
    \/ DestroyThreadUnlink
    \/ DestroyThreadRelease
    \/ DestroyThreadInvalidate

\* ---- link_thread called by several threads ------------------------------
\* Two threads on all_threads call create_thread, each up to MaxCreates
\* times and at any time; create_thread_struct and clone() succeed, and
\* link_thread runs as its steps: get_spinlock, the push, the guard page
\* (find_thread_by_pid(th->pid) in protect_control_stack_guard_page),
\* release_spinlock, th->pid=kid_pid.
MaxCreates == 2
Linkers == {Collector, Creator}
\* The struct thread of a linker's k-th child; its OS pid is the same number.
NewRecord(c, k) == 2 * k + c
LinkRecords == {NewRecord(c, k) : c \in Linkers, k \in 1..MaxCreates}
NoRecord == 0

\* find_thread_by_pid(pid): for_each_thread from the head of all_threads,
\* the first record whose pid is the one asked for, or 0.
RECURSIVE find_thread_by_pid(_, _, _)
find_thread_by_pid(list, pids, pid) ==
    IF list = <<>> THEN NoRecord
    ELSE IF pids[Head(list)] = pid THEN Head(list)
    ELSE find_thread_by_pid(Tail(list), pids, pid)

LinkInit ==
    /\ th_state = [t \in Linkers \cup LinkRecords |->
                      IF t \in Linkers THEN STATE_RUNNING ELSE NoThread]
    /\ th_pid = [t \in Linkers \cup LinkRecords |-> IF t \in Linkers THEN t ELSE 0]
    /\ all_threads = <<Creator, Collector>>
    /\ all_threads_lock = 0
    /\ wpc = [t \in Linkers |-> "lisp"]
    /\ whpc = [t \in Threads |-> "none"]
    /\ whfrom = [t \in Threads |-> "none"]
    /\ wth = [t \in Linkers |-> [n |-> 0, th |-> NoRecord]]
    /\ wsigpend = {}
    /\ wstopped = {}
    /\ wdue = [t \in Threads |-> "none"]
    /\ wcol = NoCol
    /\ wlast = [op |-> "none"]

\* create_thread: create_thread_struct (state STOPPED, pid 0) and clone()
CreateThreadBy(c) ==
    /\ WorldOthersIdle
    /\ wpc[c] = "lisp"
    /\ wth[c].n < MaxCreates
    /\ LET th == NewRecord(c, wth[c].n + 1)
       IN /\ th_state' = [th_state EXCEPT ![th] = STATE_STOPPED]
          /\ wth' = [wth EXCEPT ![c] = [n |-> @.n + 1, th |-> th]]
    /\ wpc' = [wpc EXCEPT ![c] = "link_lock"]
    /\ wlast' = [op |-> "step"]
    /\ UNCHANGED <<th_pid, all_threads, all_threads_lock, whpc, whfrom,
                   wsigpend, wstopped, wdue, wcol>>

\* link_thread: get_spinlock(&all_threads_lock,kid_pid)
LinkThreadLockBy(c) ==
    /\ WorldOthersIdle
    /\ wpc[c] = "link_lock"
    /\ get_spinlock(all_threads_lock, wth[c].th).ok
    /\ all_threads_lock' = get_spinlock(all_threads_lock, wth[c].th).word
    /\ wpc' = [wpc EXCEPT ![c] = "link_push"]
    /\ wlast' = [op |-> "step"]
    /\ UNCHANGED <<th_state, th_pid, all_threads, whpc, whfrom, wth, wsigpend,
                   wstopped, wdue, wcol>>

\* link_thread: th->next=all_threads; all_threads=th;
LinkThreadPushBy(c) ==
    /\ WorldOthersIdle
    /\ wpc[c] = "link_push"
    /\ all_threads' = <<wth[c].th>> \o all_threads
    /\ wpc' = [wpc EXCEPT ![c] = "link_guard"]
    /\ wlast' = [op |-> "step"]
    /\ UNCHANGED <<th_state, th_pid, all_threads_lock, whpc, whfrom, wth,
                   wsigpend, wstopped, wdue, wcol>>

\* link_thread: protect_control_stack_guard_page(th->pid,1), which protects
\* the guard page of find_thread_by_pid(th->pid)
LinkThreadGuardBy(c) ==
    /\ WorldOthersIdle
    /\ wpc[c] = "link_guard"
    /\ wpc' = [wpc EXCEPT ![c] = "link_release"]
    /\ wlast' = [op |-> "guard", th |-> wth[c].th,
                 found |-> find_thread_by_pid(all_threads, th_pid,
                                              th_pid[wth[c].th])]
    /\ UNCHANGED <<th_state, th_pid, all_threads, all_threads_lock, whpc,
                   whfrom, wth, wsigpend, wstopped, wdue, wcol>>

\* link_thread: release_spinlock(&all_threads_lock)
LinkThreadReleaseBy(c) ==
    /\ WorldOthersIdle
    /\ wpc[c] = "link_release"
    /\ all_threads_lock' = release_spinlock(all_threads_lock)
    /\ wpc' = [wpc EXCEPT ![c] = "link_pid"]
    /\ wlast' = [op |-> "step"]
    /\ UNCHANGED <<th_state, th_pid, all_threads, whpc, whfrom, wth, wsigpend,
                   wstopped, wdue, wcol>>

\* link_thread: th->pid=kid_pid, after the lock is released
LinkThreadSetPidBy(c) ==
    /\ WorldOthersIdle
    /\ wpc[c] = "link_pid"
    /\ th_pid' = [th_pid EXCEPT ![wth[c].th] = wth[c].th]
    /\ wpc' = [wpc EXCEPT ![c] = "lisp"]
    /\ wlast' = [op |-> "step"]
    /\ UNCHANGED <<th_state, all_threads, all_threads_lock, whpc, whfrom, wth,
                   wsigpend, wstopped, wdue, wcol>>

NextLink ==
    \/ \E c \in Linkers : CreateThreadBy(c)
    \/ \E c \in Linkers : LinkThreadLockBy(c)
    \/ \E c \in Linkers : LinkThreadPushBy(c)
    \/ \E c \in Linkers : LinkThreadGuardBy(c)
    \/ \E c \in Linkers : LinkThreadReleaseBy(c)
    \/ \E c \in Linkers : LinkThreadSetPidBy(c)

\* ---- interrupt contexts ---------------------------------------------------
\* fake_foreign_function_call and undo_fake_foreign_function_call on the
\* binding stack of dynbind.c, in the build without reg_ALLOC and reg_BSP
\* (x86): the thread's interrupt_contexts array, the thread-local value of
\* FREE_INTERRUPT_CONTEXT_INDEX, foreign_function_call_active and the
\* thread's signal mask.
MAX_INTERRUPTS == 2
FREE_INTERRUPT_CONTEXT_INDEX == NumSymbols + 1
OsContexts == {"context_1", "context_2"}
NoContext == "none"
\* Room on the binding stack for every nesting the model reaches.
FfcStackSize == MAX_INTERRUPTS + 2

\* A fake_foreign_function_call that binds the index it read.
fake_foreign_function_call_sameIndex(st, context) ==
    LET context_index == fixnum_value(SymbolValue(st, FREE_INTERRUPT_CONTEXT_INDEX))
    IN IF context_index >= MAX_INTERRUPTS
       THEN [st EXCEPT !.lost = TRUE]
       ELSE LET st1 == bind_variable(st, FREE_INTERRUPT_CONTEXT_INDEX,
                                     make_fixnum(context_index))
            IN [st1 EXCEPT !.interrupt_contexts[context_index] = context,
                           !.foreign_function_call_active = 1]

\* fake_foreign_function_call(context); lose() does not return.
fake_foreign_function_call_context(st, context) ==
    LET context_index == fixnum_value(SymbolValue(st, FREE_INTERRUPT_CONTEXT_INDEX))
    IN IF context_index >= MAX_INTERRUPTS
       THEN [st EXCEPT !.lost = TRUE]
       ELSE LET st1 == bind_variable(st, FREE_INTERRUPT_CONTEXT_INDEX,
                                     make_fixnum(context_index + 1))
            IN [st1 EXCEPT !.interrupt_contexts[context_index] = context,
                           !.foreign_function_call_active = 1]

\* undo_fake_foreign_function_call(context)
undo_fake_foreign_function_call_context(st, context) ==
    LET st1 == [st EXCEPT !.mask = sigaddset_blockable(@),
                          !.foreign_function_call_active = 0]
    IN unbind(st1)

FfcInit ==
    /\ bst = [bsp |-> 0,
              stack |-> [i \in 1..FfcStackSize |-> [symbol |-> 0, value |-> 0]],
              val |-> [s \in Symbols \cup {FREE_INTERRUPT_CONTEXT_INDEX} |->
                          IF s = FREE_INTERRUPT_CONTEXT_INDEX THEN make_fixnum(0) ELSE 0],
              stores |-> <<>>,
              fault |-> FALSE,
              interrupt_contexts |-> [i \in 0..(MAX_INTERRUPTS - 1) |-> NoContext],
              foreign_function_call_active |-> 0,
              mask |-> {},
              lost |-> FALSE]
    /\ bpc = "idle"
    /\ bloc = NoLoc
    /\ gframes = <<>>
    /\ blast = [op |-> "none"]

\* A handler is entered with a context and calls
\* fake_foreign_function_call.
FakeForeignFunctionCall(context) ==
    /\ BindOthersIdle
    /\ ~bst.lost
    /\ bst.bsp < FfcStackSize
    /\ bst' = fake_foreign_function_call_context(Fresh(bst), context)
    /\ gframes' = IF bst'.lost THEN gframes
                  ELSE Append(gframes,
                              [kind |-> "call", context |-> context, bsp |-> bst.bsp,
                               index |-> SymbolValue(bst, FREE_INTERRUPT_CONTEXT_INDEX)])
    /\ blast' = [op |-> "fake_foreign_function_call", pre |-> bst,
                 context |-> context]
    /\ UNCHANGED <<bpc, bloc>>

\* The handler whose call is the innermost open one calls
\* undo_fake_foreign_function_call with its context.
UndoFakeForeignFunctionCall ==
    /\ BindOthersIdle
    /\ ~bst.lost
    /\ Len(gframes) > 0
    /\ gframes[Len(gframes)].kind = "call"
    /\ bst' = undo_fake_foreign_function_call_context(
                  Fresh(bst), gframes[Len(gframes)].context)
    /\ gframes' = SubSeq(gframes, 1, Len(gframes) - 1)
    /\ blast' = [op |-> "undo_fake_foreign_function_call", pre |-> bst,
                 frame |-> gframes[Len(gframes)]]
    /\ UNCHANGED <<bpc, bloc>>

\* The code a handler runs binds a special variable, and unbinds it before
\* the handler returns.
HandlerBinds(s, v) ==
    /\ BindOthersIdle
    /\ ~bst.lost
    /\ bst.bsp < FfcStackSize
    /\ bst' = bind_variable(Fresh(bst), s, v)
    /\ gframes' = Append(gframes, [kind |-> "bind", symbol |-> s, bsp |-> bst.bsp])
    /\ blast' = [op |-> "bind", symbol |-> s]
    /\ UNCHANGED <<bpc, bloc>>

HandlerUnbinds ==
    /\ BindOthersIdle
    /\ ~bst.lost
    /\ Len(gframes) > 0
    /\ gframes[Len(gframes)].kind = "bind"
    /\ bst' = unbind(Fresh(bst))
    /\ gframes' = SubSeq(gframes, 1, Len(gframes) - 1)
    /\ blast' = [op |-> "unbind", pre |-> bst, frame |-> gframes[Len(gframes)]]
    /\ UNCHANGED <<bpc, bloc>>

NextFfc ==
    \/ \E c \in OsContexts : FakeForeignFunctionCall(c)
    \/ UndoFakeForeignFunctionCall
    \/ \E s \in Symbols, v \in Values : HandlerBinds(s, v)
    \/ HandlerUnbinds

\* ---- words and fixnums ----------------------------------------------------
\* The words and integers the tag predicates and the fixnum conversions are
\* applied to: every low byte, words with the top bit set, and the ends of
\* the fixnum range.
MaxSmall == 128
MOST_POSITIVE_FIXNUM == 2^(N_WORD_BITS - 3) - 1
MOST_NEGATIVE_FIXNUM == -(2^(N_WORD_BITS - 3))
WordInputs ==
    (-MaxSmall..(2 * MaxSmall - 1))
        \cup {MOST_POSITIVE_FIXNUM - k : k \in 0..3}
        \cup {MOST_NEGATIVE_FIXNUM + k : k \in 0..3}
        \cup {MOST_POSITIVE_FIXNUM + k : k \in 1..4}
        \cup {MOST_NEGATIVE_FIXNUM - k : k \in 1..4}
InFixnumRange(n) == n >= MOST_NEGATIVE_FIXNUM /\ n <= MOST_POSITIVE_FIXNUM

WordInit ==
    /\ gmem0 = Heap([r1 |-> pA, r2 |-> pB, r3 |-> pW2, a_car |-> pV, a_cdr |-> pB,
                     b_car |-> pA, b_cdr |-> NIL, v |-> pW1, w1 |-> pB, w2 |-> pA])
    /\ gc = GcStart(gmem0)
    /\ groots = {}
    /\ ghere = new_space
    /\ gphase = "word"
    /\ glast \in {[op |-> "input", x |-> x] : x \in WordInputs}

\* lowtag_of, is_lisp_pointer and fixnump of a word.
Classify ==
    /\ GcOthersIdle
    /\ gphase = "word"
    /\ glast.op = "input"
    /\ glast' = [op |-> "classify", w |-> glast.x,
                 lowtag |-> lowtag_of(glast.x),
                 pointer |-> is_lisp_pointer(glast.x),
                 fixnum |-> fixnump(glast.x)]
    /\ UNCHANGED <<gc, gmem0, groots, ghere, gphase>>

\* make_fixnum of an integer, and fixnum_value of the word.
FixnumRoundTrip ==
    /\ GcOthersIdle
    /\ gphase = "word"
    /\ glast.op = "input"
    /\ glast' = [op |-> "make_fixnum", n |-> glast.x,
                 word |-> make_fixnum(glast.x),
                 back |-> fixnum_value(make_fixnum(glast.x))]
    /\ UNCHANGED <<gc, gmem0, groots, ghere, gphase>>

NextWord ==
    \/ Classify
    \/ FixnumRoundTrip

\* ---- gc_init_tables -------------------------------------------------------
\* The header widetags gc_init_tables names besides the ones above, for the
\* build with 32-bit words and without long floats. Their numbers are the
\* genesis headers'; gc_init_tables depends on them only in that they are
\* distinct and carry one of the two other-immediate lowtags.
Widetag ==
    [RATIO |-> 14,
     SINGLE_FLOAT |-> 18,
     DOUBLE_FLOAT |-> 22,
     COMPLEX |-> 26,
     COMPLEX_SINGLE_FLOAT |-> 30,
     COMPLEX_DOUBLE_FLOAT |-> 34,
     SIMPLE_ARRAY |-> 38,
     SIMPLE_BASE_STRING |-> 42,
     SIMPLE_CHARACTER_STRING |-> 46,
     SIMPLE_BIT_VECTOR |-> 50,
     SIMPLE_ARRAY_NIL |-> 54,
     SIMPLE_ARRAY_UNSIGNED_BYTE_2 |-> 66,
     SIMPLE_ARRAY_UNSIGNED_BYTE_4 |-> 70,
     SIMPLE_ARRAY_UNSIGNED_BYTE_7 |-> 74,
     SIMPLE_ARRAY_UNSIGNED_BYTE_15 |-> 78,
     SIMPLE_ARRAY_UNSIGNED_BYTE_16 |-> 86,
     SIMPLE_ARRAY_UNSIGNED_BYTE_29 |-> 94,
     SIMPLE_ARRAY_UNSIGNED_BYTE_31 |-> 102,
     SIMPLE_ARRAY_UNSIGNED_BYTE_32 |-> 106,
     SIMPLE_ARRAY_SIGNED_BYTE_8 |-> 110,
     SIMPLE_ARRAY_SIGNED_BYTE_16 |-> 114,
     SIMPLE_ARRAY_SIGNED_BYTE_30 |-> 118,
     SIMPLE_ARRAY_SIGNED_BYTE_32 |-> 122,
     SIMPLE_ARRAY_SINGLE_FLOAT |-> 126,
     SIMPLE_ARRAY_DOUBLE_FLOAT |-> 130,
     SIMPLE_ARRAY_COMPLEX_SINGLE_FLOAT |-> 134,
     SIMPLE_ARRAY_COMPLEX_DOUBLE_FLOAT |-> 138,
     COMPLEX_BASE_STRING |-> 146,
     COMPLEX_CHARACTER_STRING |-> 150,
     COMPLEX_VECTOR_NIL |-> 154,
     COMPLEX_BIT_VECTOR |-> 162,
     COMPLEX_VECTOR |-> 166,
     COMPLEX_ARRAY |-> 170,
     CLOSURE_HEADER |-> 174,
     FUNCALLABLE_INSTANCE_HEADER |-> 178,
     SYMBOL_HEADER |-> 182,
     CHARACTER |-> 186,
     SAP |-> 190,
     UNBOUND_MARKER |-> 194,
     NO_TLS_VALUE_MARKER |-> 198,
     FDEFN |-> 202,
     RETURN_PC_HEADER |-> 206]

ScavtabAssignments ==
    <<<<BIGNUM_WIDETAG, "scav_unboxed">>,
      <<Widetag.RATIO, "scav_boxed">>,
      <<Widetag.SINGLE_FLOAT, "scav_unboxed">>,
      <<Widetag.DOUBLE_FLOAT, "scav_unboxed">>,
      <<Widetag.COMPLEX, "scav_boxed">>,
      <<Widetag.COMPLEX_SINGLE_FLOAT, "scav_unboxed">>,
      <<Widetag.COMPLEX_DOUBLE_FLOAT, "scav_unboxed">>,
      <<Widetag.SIMPLE_ARRAY, "scav_boxed">>,
      <<Widetag.SIMPLE_BASE_STRING, "scav_base_string">>,
      <<Widetag.SIMPLE_CHARACTER_STRING, "scav_character_string">>,
      <<Widetag.SIMPLE_BIT_VECTOR, "scav_vector_bit">>,
      <<Widetag.SIMPLE_ARRAY_NIL, "scav_vector_nil">>,
      <<Widetag.SIMPLE_ARRAY_UNSIGNED_BYTE_2, "scav_vector_unsigned_byte_2">>,
      <<Widetag.SIMPLE_ARRAY_UNSIGNED_BYTE_4, "scav_vector_unsigned_byte_4">>,
      <<Widetag.SIMPLE_ARRAY_UNSIGNED_BYTE_7, "scav_vector_unsigned_byte_8">>,
      <<SIMPLE_ARRAY_UNSIGNED_BYTE_8_WIDETAG, "scav_vector_unsigned_byte_8">>,
      <<Widetag.SIMPLE_ARRAY_UNSIGNED_BYTE_15, "scav_vector_unsigned_byte_16">>,
      <<Widetag.SIMPLE_ARRAY_UNSIGNED_BYTE_16, "scav_vector_unsigned_byte_16">>,
      <<Widetag.SIMPLE_ARRAY_UNSIGNED_BYTE_29, "scav_vector_unsigned_byte_32">>,
      <<Widetag.SIMPLE_ARRAY_UNSIGNED_BYTE_31, "scav_vector_unsigned_byte_32">>,
      <<Widetag.SIMPLE_ARRAY_UNSIGNED_BYTE_32, "scav_vector_unsigned_byte_32">>,
      <<Widetag.SIMPLE_ARRAY_SIGNED_BYTE_8, "scav_vector_unsigned_byte_8">>,
      <<Widetag.SIMPLE_ARRAY_SIGNED_BYTE_16, "scav_vector_unsigned_byte_16">>,
      <<Widetag.SIMPLE_ARRAY_SIGNED_BYTE_30, "scav_vector_unsigned_byte_32">>,
      <<Widetag.SIMPLE_ARRAY_SIGNED_BYTE_32, "scav_vector_unsigned_byte_32">>,
      <<Widetag.SIMPLE_ARRAY_SINGLE_FLOAT, "scav_vector_single_float">>,
      <<Widetag.SIMPLE_ARRAY_DOUBLE_FLOAT, "scav_vector_double_float">>,
      <<Widetag.SIMPLE_ARRAY_COMPLEX_SINGLE_FLOAT, "scav_vector_complex_single_float">>,
      <<Widetag.SIMPLE_ARRAY_COMPLEX_DOUBLE_FLOAT, "scav_vector_complex_double_float">>,
      <<Widetag.COMPLEX_BASE_STRING, "scav_boxed">>,
      <<Widetag.COMPLEX_CHARACTER_STRING, "scav_boxed">>,
      <<Widetag.COMPLEX_VECTOR_NIL, "scav_boxed">>,
      <<Widetag.COMPLEX_BIT_VECTOR, "scav_boxed">>,
      <<Widetag.COMPLEX_VECTOR, "scav_boxed">>,
      <<Widetag.COMPLEX_ARRAY, "scav_boxed">>,
      <<CODE_HEADER_WIDETAG, "scav_code_header">>,
      <<Widetag.CLOSURE_HEADER, "scav_closure_header">>,
      <<Widetag.FUNCALLABLE_INSTANCE_HEADER, "scav_closure_header">>,
      <<VALUE_CELL_HEADER_WIDETAG, "scav_boxed">>,
      <<Widetag.SYMBOL_HEADER, "scav_boxed">>,
      <<Widetag.CHARACTER, "scav_immediate">>,
      <<Widetag.SAP, "scav_unboxed">>,
      <<Widetag.UNBOUND_MARKER, "scav_immediate">>,
      <<Widetag.NO_TLS_VALUE_MARKER, "scav_immediate">>,
      <<INSTANCE_HEADER_WIDETAG, "scav_instance">>,
      <<Widetag.FDEFN, "scav_fdefn">>>>

TransotherAssignments ==
    <<<<BIGNUM_WIDETAG, "trans_unboxed">>,
      <<Widetag.RATIO, "trans_boxed">>,
      <<Widetag.SINGLE_FLOAT, "trans_unboxed">>,
      <<Widetag.DOUBLE_FLOAT, "trans_unboxed">>,
      <<Widetag.COMPLEX, "trans_boxed">>,
      <<Widetag.COMPLEX_SINGLE_FLOAT, "trans_unboxed">>,
      <<Widetag.COMPLEX_DOUBLE_FLOAT, "trans_unboxed">>,
      <<Widetag.SIMPLE_ARRAY, "trans_boxed">>,
      <<Widetag.SIMPLE_BASE_STRING, "trans_base_string">>,
      <<Widetag.SIMPLE_CHARACTER_STRING, "trans_character_string">>,
      <<Widetag.SIMPLE_BIT_VECTOR, "trans_vector_bit">>,
      <<SIMPLE_VECTOR_WIDETAG, "trans_vector">>,
      <<Widetag.SIMPLE_ARRAY_NIL, "trans_vector_nil">>,
      <<Widetag.SIMPLE_ARRAY_UNSIGNED_BYTE_2, "trans_vector_unsigned_byte_2">>,
      <<Widetag.SIMPLE_ARRAY_UNSIGNED_BYTE_4, "trans_vector_unsigned_byte_4">>,
      <<Widetag.SIMPLE_ARRAY_UNSIGNED_BYTE_7, "trans_vector_unsigned_byte_8">>,
      <<SIMPLE_ARRAY_UNSIGNED_BYTE_8_WIDETAG, "trans_vector_unsigned_byte_8">>,
      <<Widetag.SIMPLE_ARRAY_UNSIGNED_BYTE_15, "trans_vector_unsigned_byte_16">>,
      <<Widetag.SIMPLE_ARRAY_UNSIGNED_BYTE_16, "trans_vector_unsigned_byte_16">>,
      <<Widetag.SIMPLE_ARRAY_UNSIGNED_BYTE_29, "trans_vector_unsigned_byte_32">>,
      <<Widetag.SIMPLE_ARRAY_UNSIGNED_BYTE_31, "trans_vector_unsigned_byte_32">>,
      <<Widetag.SIMPLE_ARRAY_UNSIGNED_BYTE_32, "trans_vector_unsigned_byte_32">>,
      <<Widetag.SIMPLE_ARRAY_SIGNED_BYTE_8, "trans_vector_unsigned_byte_8">>,
      <<Widetag.SIMPLE_ARRAY_SIGNED_BYTE_16, "trans_vector_unsigned_byte_16">>,
      <<Widetag.SIMPLE_ARRAY_SIGNED_BYTE_30, "trans_vector_unsigned_byte_32">>,
      <<Widetag.SIMPLE_ARRAY_SIGNED_BYTE_32, "trans_vector_unsigned_byte_32">>,
      <<Widetag.SIMPLE_ARRAY_SINGLE_FLOAT, "trans_vector_single_float">>,
      <<Widetag.SIMPLE_ARRAY_DOUBLE_FLOAT, "trans_vector_double_float">>,
      <<Widetag.SIMPLE_ARRAY_COMPLEX_SINGLE_FLOAT, "trans_vector_complex_single_float">>,
      <<Widetag.SIMPLE_ARRAY_COMPLEX_DOUBLE_FLOAT, "trans_vector_complex_double_float">>,
      <<Widetag.COMPLEX_BASE_STRING, "trans_boxed">>,
      <<Widetag.COMPLEX_CHARACTER_STRING, "trans_boxed">>,
      <<Widetag.COMPLEX_BIT_VECTOR, "trans_boxed">>,
      <<Widetag.COMPLEX_VECTOR_NIL, "trans_boxed">>,
      <<Widetag.COMPLEX_VECTOR, "trans_boxed">>,
      <<Widetag.COMPLEX_ARRAY, "trans_boxed">>,
      <<CODE_HEADER_WIDETAG, "trans_code_header">>,
      <<SIMPLE_FUN_HEADER_WIDETAG, "trans_fun_header">>,
      <<Widetag.RETURN_PC_HEADER, "trans_return_pc_header">>,
      <<Widetag.CLOSURE_HEADER, "trans_boxed">>,
      <<Widetag.FUNCALLABLE_INSTANCE_HEADER, "trans_boxed">>,
      <<VALUE_CELL_HEADER_WIDETAG, "trans_boxed">>,
      <<Widetag.SYMBOL_HEADER, "trans_boxed">>,
      <<Widetag.CHARACTER, "trans_immediate">>,
      <<Widetag.SAP, "trans_unboxed">>,
      <<Widetag.UNBOUND_MARKER, "trans_immediate">>,
      <<Widetag.NO_TLS_VALUE_MARKER, "trans_immediate">>,
      <<WEAK_POINTER_WIDETAG, "trans_weak_pointer">>,
      <<INSTANCE_HEADER_WIDETAG, "trans_boxed">>,
      <<Widetag.FDEFN, "trans_boxed">>>>

SizetabAssignments ==
    <<<<BIGNUM_WIDETAG, "size_unboxed">>,
      <<Widetag.RATIO, "size_boxed">>,
      <<Widetag.SINGLE_FLOAT, "size_unboxed">>,
      <<Widetag.DOUBLE_FLOAT, "size_unboxed">>,
      <<Widetag.COMPLEX, "size_boxed">>,
      <<Widetag.COMPLEX_SINGLE_FLOAT, "size_unboxed">>,
      <<Widetag.COMPLEX_DOUBLE_FLOAT, "size_unboxed">>,
      <<Widetag.SIMPLE_ARRAY, "size_boxed">>,
      <<Widetag.SIMPLE_BASE_STRING, "size_base_string">>,
      <<Widetag.SIMPLE_CHARACTER_STRING, "size_character_string">>,
      <<Widetag.SIMPLE_BIT_VECTOR, "size_vector_bit">>,
      <<SIMPLE_VECTOR_WIDETAG, "size_vector">>,
      <<Widetag.SIMPLE_ARRAY_NIL, "size_vector_nil">>,
      <<Widetag.SIMPLE_ARRAY_UNSIGNED_BYTE_2, "size_vector_unsigned_byte_2">>,
      <<Widetag.SIMPLE_ARRAY_UNSIGNED_BYTE_4, "size_vector_unsigned_byte_4">>,
      <<Widetag.SIMPLE_ARRAY_UNSIGNED_BYTE_7, "size_vector_unsigned_byte_8">>,
      <<SIMPLE_ARRAY_UNSIGNED_BYTE_8_WIDETAG, "size_vector_unsigned_byte_8">>,
      <<Widetag.SIMPLE_ARRAY_UNSIGNED_BYTE_15, "size_vector_unsigned_byte_16">>,
      <<Widetag.SIMPLE_ARRAY_UNSIGNED_BYTE_16, "size_vector_unsigned_byte_16">>,
      <<Widetag.SIMPLE_ARRAY_UNSIGNED_BYTE_29, "size_vector_unsigned_byte_32">>,
      <<Widetag.SIMPLE_ARRAY_UNSIGNED_BYTE_31, "size_vector_unsigned_byte_32">>,
      <<Widetag.SIMPLE_ARRAY_UNSIGNED_BYTE_32, "size_vector_unsigned_byte_32">>,
      <<Widetag.SIMPLE_ARRAY_SIGNED_BYTE_8, "size_vector_unsigned_byte_8">>,
      <<Widetag.SIMPLE_ARRAY_SIGNED_BYTE_16, "size_vector_unsigned_byte_16">>,
      <<Widetag.SIMPLE_ARRAY_SIGNED_BYTE_30, "size_vector_unsigned_byte_32">>,
      <<Widetag.SIMPLE_ARRAY_SIGNED_BYTE_32, "size_vector_unsigned_byte_32">>,
      <<Widetag.SIMPLE_ARRAY_SINGLE_FLOAT, "size_vector_single_float">>,
      <<Widetag.SIMPLE_ARRAY_DOUBLE_FLOAT, "size_vector_double_float">>,
      <<Widetag.SIMPLE_ARRAY_COMPLEX_SINGLE_FLOAT, "size_vector_complex_single_float">>,
      <<Widetag.SIMPLE_ARRAY_COMPLEX_DOUBLE_FLOAT, "size_vector_complex_double_float">>,
      <<Widetag.COMPLEX_BASE_STRING, "size_boxed">>,
      <<Widetag.COMPLEX_CHARACTER_STRING, "size_boxed">>,
      <<Widetag.COMPLEX_VECTOR_NIL, "size_boxed">>,
      <<Widetag.COMPLEX_BIT_VECTOR, "size_boxed">>,
      <<Widetag.COMPLEX_VECTOR, "size_boxed">>,
      <<Widetag.COMPLEX_ARRAY, "size_boxed">>,
      <<CODE_HEADER_WIDETAG, "size_code_header">>,
      <<Widetag.CLOSURE_HEADER, "size_boxed">>,
      <<Widetag.FUNCALLABLE_INSTANCE_HEADER, "size_boxed">>,
      <<VALUE_CELL_HEADER_WIDETAG, "size_boxed">>,
      <<Widetag.SYMBOL_HEADER, "size_boxed">>,
      <<Widetag.CHARACTER, "size_immediate">>,
      <<Widetag.SAP, "size_unboxed">>,
      <<Widetag.UNBOUND_MARKER, "size_immediate">>,
      <<Widetag.NO_TLS_VALUE_MARKER, "size_immediate">>,
      <<WEAK_POINTER_WIDETAG, "size_weak_pointer">>,
      <<INSTANCE_HEADER_WIDETAG, "size_boxed">>,
      <<Widetag.FDEFN, "size_boxed">>>>

\* LOWTAG|(i<<N_LOWTAG_BITS), with the high bits taken from the wrong place.
lowtag_slot_twoBits(lowtag, i) == lowtag + i * 2^(N_LOWTAG_BITS - 1)

lowtag_slot(lowtag, i) == lowtag + i * 2^N_LOWTAG_BITS

EVEN_FIXNUM_LOWTAG == 0
ODD_FIXNUM_LOWTAG == 4
TableIndices == 0..(2^N_WIDETAG_BITS - 1)
LoseOf(tab) ==
    CASE tab = "scavtab" -> "scav_lose"
      [] tab = "transother" -> "trans_lose"
      [] OTHER -> "size_lose"

\* One iteration of the loop over the high bits: the entries selected by the
\* lowtag alone.
LowtagEntries(tab, i) ==
    IF tab = "scavtab"
    THEN <<<<lowtag_slot(EVEN_FIXNUM_LOWTAG, i), "scav_immediate">>,
           <<lowtag_slot(FUN_POINTER_LOWTAG, i), "scav_fun_pointer">>,
           <<lowtag_slot(LIST_POINTER_LOWTAG, i), "scav_list_pointer">>,
           <<lowtag_slot(ODD_FIXNUM_LOWTAG, i), "scav_immediate">>,
           <<lowtag_slot(INSTANCE_POINTER_LOWTAG, i), "scav_instance_pointer">>,
           <<lowtag_slot(OTHER_POINTER_LOWTAG, i), "scav_other_pointer">>>>
    ELSE <<<<lowtag_slot(EVEN_FIXNUM_LOWTAG, i), "size_immediate">>,
           <<lowtag_slot(FUN_POINTER_LOWTAG, i), "size_pointer">>,
           <<lowtag_slot(LIST_POINTER_LOWTAG, i), "size_pointer">>,
           <<lowtag_slot(ODD_FIXNUM_LOWTAG, i), "size_immediate">>,
           <<lowtag_slot(INSTANCE_POINTER_LOWTAG, i), "size_pointer">>,
           <<lowtag_slot(OTHER_POINTER_LOWTAG, i), "size_pointer">>>>

\* The statements of gc_init_tables in their order: the loop that fills a
\* table with its lose entry, the iterations of the loop over the high bits,
\* and the assignments of single entries.
\* The assignments of single entries, without the last of them.
StatementsOf_butLast(tab, assignments) ==
    [k \in 1..(Len(assignments) - 1) |->
        [op |-> "set", tab |-> tab, at |-> assignments[k][1], fn |-> assignments[k][2]]]
StatementsOf(tab, assignments) ==
    [k \in 1..Len(assignments) |->
        [op |-> "set", tab |-> tab, at |-> assignments[k][1], fn |-> assignments[k][2]]]
LowtagLoop(tab) ==
    [k \in 1..(2^(N_WIDETAG_BITS - N_LOWTAG_BITS)) |->
        [op |-> "lowtags", tab |-> tab, i |-> k - 1]]
GcInitTablesProgram ==
    <<[op |-> "default", tab |-> "scavtab"]>>
        \o LowtagLoop("scavtab")
        \o StatementsOf("scavtab", ScavtabAssignments)
        \o <<[op |-> "default", tab |-> "transother"]>>
        \o StatementsOf("transother", TransotherAssignments)
        \o <<[op |-> "default", tab |-> "sizetab"]>>
        \o LowtagLoop("sizetab")
        \o StatementsOf("sizetab", SizetabAssignments)

RECURSIVE StoreEntries(_, _)
StoreEntries(table, entries) ==
    IF entries = <<>> THEN table
    ELSE StoreEntries([table EXCEPT ![entries[1][1]] = entries[1][2]], Tail(entries))

Execute(tables, st) ==
    CASE st.op = "default" ->
             [tables EXCEPT ![st.tab] = [i \in TableIndices |-> LoseOf(st.tab)]]
      [] st.op = "lowtags" ->
             [tables EXCEPT ![st.tab] = StoreEntries(@, LowtagEntries(st.tab, st.i))]
      [] OTHER ->
             [tables EXCEPT ![st.tab] = StoreEntries(@, <<<<st.at, st.fn>>>>)]

\* The tables are static arrays: all entries null before gc_init_tables.
TablesInit ==
    /\ gmem0 = Heap([r1 |-> pA, r2 |-> pB, r3 |-> pW2, a_car |-> pV, a_cdr |-> pB,
                     b_car |-> pA, b_cdr |-> NIL, v |-> pW1, w1 |-> pB, w2 |-> pA])
    /\ gc = GcStart(gmem0)
    /\ groots = {}
    /\ ghere = new_space
    /\ gphase = "tables"
    /\ glast = [op |-> "gc_init_tables", pc |-> 1,
                tables |-> [tab \in {"scavtab", "transother", "sizetab"} |->
                               [i \in TableIndices |-> "null"]]]

\* gc_init_tables executes its next statement.
GcInitTablesStep ==
    /\ GcOthersIdle
    /\ gphase = "tables"
    /\ glast.pc <= Len(GcInitTablesProgram)
    /\ glast' = [glast EXCEPT !.pc = @ + 1,
                              !.tables = Execute(@, GcInitTablesProgram[glast.pc])]
    /\ UNCHANGED <<gc, gmem0, groots, ghere, gphase>>

NextTables == GcInitTablesStep

\* ---- transporting one object of each kind ---------------------------
\* One object at the start of from space: a value cell, an instance or a
\* bignum with HeaderValue n, a weak pointer, a simple vector or a vector of
\* bytes with some length, a code object without functions.
MaxPayload == 5
SizeKinds == {"value_cell", "instance", "bignum", "weak_pointer",
              "simple_vector", "unsigned_byte_8", "code"}
SizedObject == make_lispobj(from_space, OTHER_POINTER_LOWTAG)
SizeChoices == [kind : SizeKinds, n : 0..MaxPayload, m : 0..2]
SizeLength(c) == c.n + c.m * (MaxPayload + 1)
SizeHeap(c) ==
    [a \in Addrs |->
        CASE a = from_space ->
                 CASE c.kind = "value_cell" -> c.n * 2^N_WIDETAG_BITS + VALUE_CELL_HEADER_WIDETAG
                   [] c.kind = "instance" -> c.n * 2^N_WIDETAG_BITS + INSTANCE_HEADER_WIDETAG
                   [] c.kind = "bignum" -> c.n * 2^N_WIDETAG_BITS + BIGNUM_WIDETAG
                   [] c.kind = "weak_pointer" -> Header(WEAK_POINTER_WIDETAG, 4)
                   [] c.kind = "simple_vector" -> SIMPLE_VECTOR_WIDETAG
                   [] c.kind = "unsigned_byte_8" -> SIMPLE_ARRAY_UNSIGNED_BYTE_8_WIDETAG
                   [] OTHER -> (5 + c.m) * 2^N_WIDETAG_BITS + CODE_HEADER_WIDETAG
          [] a = from_space + N_WORD_BYTES ->
                 CASE c.kind \in {"simple_vector", "unsigned_byte_8"} ->
                          make_fixnum(SizeLength(c))
                   [] c.kind = "code" -> make_fixnum(c.n)
                   [] OTHER -> make_fixnum(1)
          [] a = from_space + 2 * N_WORD_BYTES ->
                 IF c.kind = "code" THEN NIL ELSE make_fixnum(2)
          [] a = static_space -> NIL
          [] a = static_space + 4 -> NIL
          [] OTHER -> 0]

SizeInit ==
    /\ gmem0 \in {SizeHeap(c) : c \in SizeChoices}
    /\ gc = GcStart(gmem0)
    /\ groots = {}
    /\ ghere = new_space
    /\ gphase = "size"
    /\ glast = [op |-> "none"]

\* (transother[widetag_of(header)])(object), as scav_other_pointer calls it.
Transport ==
    /\ GcOthersIdle
    /\ gphase = "size"
    /\ glast.op = "none"
    /\ \E r \in {call_transother(transother(widetag_of(gc.mem[from_space])),
                                    gc, SizedObject)} :
           /\ gc' = r.g
           /\ glast' = [op |-> "transother", object |-> SizedObject,
                        pre |-> gc, v |-> r.v]
    /\ UNCHANGED <<gmem0, groots, ghere, gphase>>

NextSize == Transport

Init ==
    /\ BindInit
    /\ SigInit
    /\ WorldInit
    /\ GcIdle
    /\ PurIdle

\* A collection begins with the other parts at rest.
InitGc ==
    /\ BindInit
    /\ SigInit
    /\ WorldInit
    /\ GcInit
    /\ PurIdle

SpecBind == Init /\ [][NextBind]_vars
SpecSig == Init /\ [][NextSig]_vars
SpecWorld == Init /\ [][NextWorld]_vars
SpecGc == InitGc /\ [][NextGc]_vars
SpecRounds == Init /\ [][NextRounds]_vars /\ FairRounds

\* trans_list on every list heap, with the other parts at rest.
InitList ==
    /\ BindInit
    /\ SigInit
    /\ WorldInit
    /\ ListInit
    /\ PurIdle

SpecList == InitList /\ [][NextList]_vars

\* The collection of every heap with a code object.
InitCode ==
    /\ BindInit
    /\ SigInit
    /\ WorldInit
    /\ CodeInit
    /\ PurIdle

SpecCode == InitCode /\ [][NextGc]_vars

\* Two collections in succession with nothing between them.
TwiceChoices ==
    [r1 : {pA, pV, pW1}, r2 : {make_fixnum(1), pB, pW2}, r3 : {make_fixnum(1), pW2},
     a_car : {make_fixnum(1), pV, pN}, a_cdr : {NIL, pB},
     b_car : {make_fixnum(2), pA}, b_cdr : {NIL},
     v : {make_fixnum(3), pB, pW1}, w1 : {pB, pV}, w2 : {pA, pB}]

InitTwice ==
    /\ BindInit
    /\ SigInit
    /\ WorldInit
    /\ GcInitWith(TwiceChoices)
    /\ PurIdle

SpecTwice == InitTwice /\ [][NextTwice]_vars

\* scavenge over every range of whole objects.
InitRange ==
    /\ BindInit
    /\ SigInit
    /\ WorldInit
    /\ RangeInit
    /\ PurIdle

SpecRange == InitRange /\ [][NextRange]_vars

\* Nested handlers entering and leaving foreign-call state.
InitFfc ==
    /\ FfcInit
    /\ SigInit
    /\ WorldInit
    /\ GcIdle
    /\ PurIdle

SpecFfc == InitFfc /\ [][NextFfc]_vars

\* The binding-stack operations statement by statement, with a handler
\* that may run between any two statements.
SpecStep == Init /\ [][NextStep]_vars

\* destroy_thread on every list of records.
InitDestroy ==
    /\ BindInit
    /\ SigInit
    /\ DestroyInit
    /\ GcIdle
    /\ PurIdle

SpecDestroy == InitDestroy /\ [][NextDestroy]_vars

InitLink ==
    /\ BindInit
    /\ SigInit
    /\ LinkInit
    /\ GcIdle
    /\ PurIdle

SpecLink == InitLink /\ [][NextLink]_vars

\* The tag predicates and the fixnum conversions on words.
InitWord ==
    /\ BindInit
    /\ SigInit
    /\ WorldInit
    /\ WordInit
    /\ PurIdle

SpecWord == InitWord /\ [][NextWord]_vars

\* gc_init_tables, statement by statement.
InitTables ==
    /\ BindInit
    /\ SigInit
    /\ WorldInit
    /\ TablesInit
    /\ PurIdle

SpecTables == InitTables /\ [][NextTables]_vars

\* The transport of one object of every kind and size.
InitSize ==
    /\ BindInit
    /\ SigInit
    /\ WorldInit
    /\ SizeInit
    /\ PurIdle

SpecSize == InitSize /\ [][NextSize]_vars

\* The later blocks of one purify.
InitLater ==
    /\ BindInit
    /\ SigInit
    /\ WorldInit
    /\ GcIdle
    /\ LaterInit

SpecLater == InitLater /\ [][NextLater]_vars

\* purify on every heap, with the other parts at rest.
InitPurify ==
    /\ BindInit
    /\ SigInit
    /\ WorldInit
    /\ GcIdle
    /\ PurInit

SpecPurify == InitPurify /\ [][NextPurify]_vars

\* Cyclic heaps: a cons that is its own car or cdr, a circular list of two
\* conses, a value cell and an instance that hold themselves, objects that
\* hold each other.
GcCycleChoices ==
    [r1 : {pA, pV}, r2 : {pB}, r3 : {make_fixnum(1)},
     a_car : {pA, pV}, a_cdr : {pB, pA},
     b_car : {make_fixnum(2)}, b_cdr : {pA, pB},
     v : {pV, pA}, w1 : {make_fixnum(1)}, w2 : {pA}]

PurCycleChoices ==
    [r1 : {pA, pV}, r2 : {make_fixnum(2)}, sroot : {pI}, roroot : {NIL},
     a_car : {pI, pA}, a_cdr : {pA, NIL}, v : {pV, pA}, i1 : {pI, pA},
     pure : {T, NIL}, fici : {0}]

\* A collection and a purify, each on a cyclic heap of its own.
InitCycles ==
    /\ BindInit
    /\ SigInit
    /\ WorldInit
    /\ GcInitWith(GcCycleChoices)
    /\ PurInitWith(PurCycleChoices)

NextCycles ==
    \/ NextGc
    \/ NextPurify

\* Both run to completion: each is one thread's loop that nothing blocks.
SpecCycles == InitCycles /\ [][NextCycles]_vars /\ WF_vars(NextCycles)

(***************************************************************************)
(*                    Properties of the binding stack                      *)
(***************************************************************************)

\* C9: bind_variable(s, v), then any balanced sequence of binds and unbinds,
\* then unbind leaves both s's value and the binding-stack pointer exactly as
\* they were before the bind.  (blast.frame is the history taken at the
\* bind: s, the values and the BSP before it.)
C9_BindUnbindRoundTrip ==
    blast.op = "unbind" =>
        /\ ~bst.fault
        /\ bst.val[blast.frame.symbol] = blast.frame.snap[blast.frame.symbol]
        /\ bst.bsp = blast.frame.bsp

\* An unbind has just undone a bind that had other binds and unbinds nested
\* in it, and it changed s's value back.
C9_Witness ==
    /\ blast.op = "unbind"
    /\ blast.frame.nested
    /\ blast.pre.val[blast.frame.symbol] # bst.val[blast.frame.symbol]
    /\ bst.bsp = blast.frame.bsp

\* The stores unbind_to_here(target) owes: one per record above target whose
\* symbol field is not cleared, top record first.
OwedStores(st, target) ==
    LET n == st.bsp - target
        all == [k \in 1..n |-> st.stack[st.bsp - k + 1]]
        live == SelectSeq(all, LAMBDA r : r.symbol # 0)
    IN [k \in 1..Len(live) |-> <<live[k].symbol, live[k].value>>]

\* C10: after unbind_to_here(m) the binding-stack pointer equals m, every
\* record above m whose symbol field was not cleared has had its saved value
\* stored back exactly once, last in first out, and has its symbol field
\* cleared, and each symbol has the value it had when the BSP was m.
C10_UnbindToHere ==
    blast.op = "unbind_to_here" =>
        /\ ~bst.fault
        /\ bst.bsp = blast.target
        /\ \A i \in (blast.target + 1)..blast.pre.bsp : bst.stack[i].symbol = 0
        /\ bst.stores = OwedStores(blast.pre, blast.target)
        /\ bst.val = IF blast.pre.bsp > blast.target
                     THEN blast.frames[blast.target + 1].snap
                     ELSE blast.pre.val

\* unbind_to_here has just popped several records, one of them cleared (left
\* by an abandoned bind_variable), and changed a symbol's value.
C10_Witness ==
    /\ blast.op = "unbind_to_here"
    /\ \E i \in (blast.target + 1)..blast.pre.bsp : blast.pre.stack[i].symbol = 0
    /\ Len(bst.stores) >= 2
    /\ bst.val # blast.pre.val
    /\ bst.bsp = blast.target

(***************************************************************************)
(*                  Properties of the deferral machinery                   *)
(***************************************************************************)

\* C6: with interrupts enabled, a blockable signal arriving inside a
\* pseudo-atomic region is recorded in the pending record and its handler
\* returns without running the Lisp-level handler; when the thread leaves the
\* region and interrupt_handle_pending has run, the Lisp-level handler of
\* that signal has run exactly once more.
C6_DeferredRunsExactlyOnce ==
    /\ (slast.op = "deferred" /\ slast.why = "pa" /\ slast.signal \in UserSignals)
           => /\ sth.pending_handler = "interrupt_handle_now"
              /\ sth.pending_signal = slast.signal
              /\ sth.ran = slast.before.ran
    /\ slast.op = "pa_exit_done"
           => \A g \in slast.owed : sth.ran[g] = slast.before.ran[g] + 1

\* The first half of C6 alone: the deferral itself is as described.
C6_DeferralRecorded ==
    (slast.op = "deferred" /\ slast.why = "pa" /\ slast.signal \in UserSignals)
        => /\ sth.pending_handler = "interrupt_handle_now"
           /\ sth.pending_signal = slast.signal
           /\ sth.ran = slast.before.ran

\* The state C6 excludes: the region has been left, the deferred handlers
\* have been run, and a signal deferred in the region has had no Lisp-level
\* handler run (the memory fault of the GC trigger was stored over it).
C6_LostSignal ==
    /\ slast.op = "pa_exit_done"
    /\ slast.trapped
    /\ \E g \in slast.owed : sth.ran[g] = slast.before.ran[g]
    /\ sth.ran[SIG_MEMORY_FAULT] = slast.before.ran[SIG_MEMORY_FAULT] + 1

\* What every deferral leaves in the pending record.
RecordHolds ==
    /\ sth.pending_handler = slast.handler
    /\ sth.pending_signal = slast.signal
    /\ sth.pending_info = slast.info
    /\ sth.pending_mask = slast.mask

\* C7 as stated: whenever maybe_defer_handler defers, the pending record
\* holds handler, signal, siginfo and interrupted mask, and INTERRUPT_PENDING
\* is set; in the pseudo-atomic case pseudo-atomic-interrupted is set too.
C7_AsStated ==
    slast.op = "deferred" =>
        /\ RecordHolds
        /\ sth.ipending
        /\ slast.why = "pa" => sth.paint

\* C7: whenever maybe_defer_handler defers, the pending record holds handler,
\* signal, siginfo and interrupted mask; INTERRUPT_PENDING is set when the
\* deferral is for disabled interrupts; in the pseudo-atomic case
\* pseudo-atomic-interrupted is set and INTERRUPT_PENDING is left as it was.
C7_DeferralRecord ==
    slast.op = "deferred" =>
        /\ RecordHolds
        /\ slast.why = "disabled" => sth.ipending
        /\ slast.why = "pa" => /\ sth.paint
                               /\ sth.ipending = slast.before.ipending

C7_Witness ==
    /\ slast.op = "deferred"
    /\ slast.why = "pa"
    /\ slast.signal \in UserSignals
    /\ sth.paint
    /\ ~sth.ipending
    /\ sth.pending_handler = "interrupt_handle_now"
    /\ sth.pending_info = slast.info

(***************************************************************************)
(*                   Properties of stopping the world                      *)
(***************************************************************************)

\* A peer is executing Lisp (mutator) code: it has been started, the OS has
\* not suspended it, and it is not inside the GC-stop handler.
ExecutingMutatorCode(t) == wpc[t] = "lisp" /\ whpc[t] = "none" /\ t \notin wstopped

InList(t) == \E i \in 1..Len(all_threads) : all_threads[i] = t

\* C1: from the return of gc_stop_the_world until gc_start_the_world is
\* called, every other thread on all_threads is in state STOPPED (so none has
\* gone to RUNNING) and none executes mutator code, whatever create_thread,
\* link_thread, new_thread_trampoline and the peers' handlers do meanwhile.
C1_WorldStopped ==
    wpc[Collector] = "collecting" =>
        \A t \in Peers : InList(t) =>
            /\ th_state[t] = STATE_STOPPED
            /\ ~ExecutingMutatorCode(t)

\* C8: a peer that is in a pseudo-atomic region or has interrupts disabled
\* does not send itself the SIGSTOP, and sig_stop_for_gc_handler is not past
\* its deferral test (where it sets the state to STOPPED and sends the
\* SIGSTOP); when the handler finds the thread so, it records itself as the
\* pending handler and returns with the thread's state as it was (which may
\* still read STOPPED from the collection before), and the thread is still
\* running.
C8_NoStopInPseudoAtomic ==
    \A t \in Peers :
        /\ (wlast.op = "h_kill" /\ wlast.t = t)
               => (~wth[t].pa /\ wth[t].ienabled)
        /\ (whpc[t] \in {"h_lock", "h_state", "h_release", "h_kill", "h_undo"})
               => (~wth[t].pa /\ wth[t].ienabled)
        /\ (wlast.op = "deferred" /\ wlast.t = t)
               => /\ wth[t].pending_handler = "sig_stop_for_gc_handler"
                  /\ th_state[t] = wlast.state
                  /\ t \notin wstopped
                  /\ whpc[t] = "none"

\* The deferred case has run to its end: a peer signalled inside a
\* pseudo-atomic region has left it, run_deferred_handler has called the
\* handler, and the thread has stopped itself.
C8_Witness ==
    /\ wlast.op = "h_kill"
    /\ wlast.from = "deferred"
    /\ wlast.t \in wstopped
    /\ th_state[wlast.t] = STATE_STOPPED
    /\ ~wth[wlast.t].pa

(***************************************************************************)
(*                     Properties of the collection                        *)
(***************************************************************************)

\* What the from-space objects of the heap are: their words that hold
\* descriptors, and among those the ones the collector follows.
Objects == {cons_A, cons_B, cell_V, weak_1, weak_2, bignum_N}
IsWeak(o) == o \in {weak_1, weak_2}
DescriptorOffsets(o) ==
    CASE o \in {cons_A, cons_B} -> {0, 4}
      [] o = cell_V -> {4}
      [] IsWeak(o) -> {4, 8}
      [] OTHER -> {}
StrongOffsets(o) == IF IsWeak(o) THEN {} ELSE DescriptorOffsets(o)

PointsToFromSpace(w) == is_lisp_pointer(w) /\ from_space_p(w)

\* The from-space objects a strong path from a root reaches, in memory mem.
StrongTargets(mem, slots) ==
    {native_pointer(mem[a]) : a \in {b \in slots : PointsToFromSpace(mem[b])}}
RECURSIVE ReachFrom(_, _)
ReachFrom(mem, S) ==
    LET S2 == S \cup UNION {StrongTargets(mem, {o + k : k \in StrongOffsets(o)}) : o \in S}
    IN IF S2 = S THEN S ELSE ReachFrom(mem, S2)
StrongReach(mem) == ReachFrom(mem, StrongTargets(mem, Roots))

\* The history of copies: which objects were copied, and where.
Copies == {gc.log[i] : i \in 1..Len(gc.log)}
Copied == {c[1] : c \in Copies}

\* The descriptor words of live space: the roots and the descriptor words of
\* the copies; each with the from-space or static word it is the copy of.
\* (pairs <<word in new space, the word it was copied from>>)
CopySlots == UNION {{<<c[2] + k, c[1] + k>> : k \in DescriptorOffsets(c[1])} : c \in Copies}
LiveSlots == Roots \cup {cs[1] : cs \in CopySlots}
WeakValueSlots == {wp_value(c[2]) : c \in {d \in Copies : IsWeak(d[1])}}
Orig(slot) ==
    IF slot \in Roots THEN gmem0[slot]
    ELSE gmem0[(CHOOSE cs \in CopySlots : cs[1] = slot)[2]]
InRange(a, start, n) == a >= start /\ a < start + n * N_WORD_BYTES

\* The words scavenge has been over: the roots done and the strong words of
\* the copies below scavenge_newspace's cursor.
ScannedSlots ==
    (Roots \ groots)
        \cup {cs[1] : cs \in {d \in CopySlots : d[1] < ghere /\ d[1] \notin WeakValueSlots
                                                /\ d[1] - N_WORD_BYTES \notin WeakValueSlots}}

\* C2 as stated: once all roots are scavenged and new space is scavenged to
\* its end, no descriptor word of live space points into from space; and
\* after scavenge(start, n) returns, no descriptor word in [start, start+n)
\* points into from space.
C2_AsStated ==
    /\ (gphase = "done" \/ (gphase = "newspace" /\ ~(ghere < gc.free)))
           => \A a \in LiveSlots : ~PointsToFromSpace(gc.mem[a])
    /\ glast.op = "scavenge"
           => \A a \in LiveSlots :
                  InRange(a, glast.start, glast.n) => ~PointsToFromSpace(gc.mem[a])

\* C2: once all roots are scavenged, new space is scavenged to its end and
\* scan_weak_pointers has run, no descriptor word of live space points into
\* from space; and after scavenge(start, n) returns, no descriptor word in
\* [start, start+n) other than the value of a weak pointer points into from
\* space.
C2_NoFromSpacePointers ==
    /\ ~gc.lose
    /\ gphase = "done" => \A a \in LiveSlots : ~PointsToFromSpace(gc.mem[a])
    /\ glast.op = "scavenge"
           => \A a \in LiveSlots \ WeakValueSlots :
                  InRange(a, glast.start, glast.n) => ~PointsToFromSpace(gc.mem[a])

\* The collection is over, it transported a weak pointer whose value pointed
\* into from space, and pointers in roots and in copies were replaced.
C2_Witness ==
    /\ gphase = "done"
    /\ \E a \in WeakValueSlots : PointsToFromSpace(Orig(a))
    /\ \E r \in Roots : PointsToFromSpace(gmem0[r]) /\ gc.mem[r] # gmem0[r]
    /\ Cardinality(Copied) >= 3

\* C3: within a collection no from-space object is copied twice, and every
\* word scavenged that referred to from-space object O holds the one new
\* pointer to O's copy (which is also O's forwarding pointer), in whatever
\* order the roots were scavenged.
C3_CopiedOnce ==
    /\ \A i, j \in 1..Len(gc.log) : gc.log[i][1] = gc.log[j][1] => i = j
    /\ \A a \in ScannedSlots :
           PointsToFromSpace(Orig(a)) =>
               /\ native_pointer(Orig(a)) \in Copied
               /\ \A c \in Copies :
                      c[1] = native_pointer(Orig(a))
                          => gc.mem[a] = make_lispobj(c[2], lowtag_of(Orig(a)))
               /\ gc.mem[a] = gc.mem[native_pointer(Orig(a))]
    /\ \A a, b \in ScannedSlots :
           (PointsToFromSpace(Orig(a)) /\ Orig(a) = Orig(b)) => gc.mem[a] = gc.mem[b]

\* The collection is over and three scavenged words, two of them roots, had
\* referred to the same from-space object.
C3_Witness ==
    /\ gphase = "done"
    /\ \E a, b \in Roots, c \in ScannedSlots \ Roots :
           /\ a # b
           /\ PointsToFromSpace(Orig(a))
           /\ Orig(a) = Orig(b)
           /\ Orig(a) = Orig(c)
           /\ gc.mem[a] = gc.mem[c]
           /\ new_space_p(gc, gc.mem[a])

\* The weak pointers on the list weak_pointers of collector state g.
RECURSIVE WeakChain(_, _)
WeakChain(g, wp) ==
    IF wp = NULL_wp THEN {} ELSE {wp} \cup WeakChain(g, g.mem[wp_next(wp)])
WeakList(g) == WeakChain(g, g.weak_pointers)

\* C4: only objects that a strong path from a root reaches are copied; the
\* copy of a weak pointer is on the list weak_pointers, and until
\* scan_weak_pointers its value is the value copied, neither transported nor
\* scavenged.
C4_WeakNotStrong ==
    /\ ~gc.lose
    /\ Copied \subseteq StrongReach(gmem0)
    /\ \A c \in Copies :
           IsWeak(c[1]) =>
               /\ c[2] \in WeakList(gc)
               /\ gphase # "done" => gc.mem[wp_value(c[2])] = gmem0[wp_value(c[1])]

\* The collection is over, a weak pointer was transported, and the object
\* its value named, reachable through weak pointers only, was not copied.
C4_Witness ==
    /\ gphase = "done"
    /\ \E c \in Copies :
           /\ IsWeak(c[1])
           /\ PointsToFromSpace(gmem0[wp_value(c[1])])
           /\ native_pointer(gmem0[wp_value(c[1])]) \notin Copied
           /\ \E d \in Copies : IsWeak(d[1]) /\ d # c

\* C5: after scan_weak_pointers, for every weak pointer on the list: a value
\* that was not a from-space pointer is unchanged; a value whose referent
\* carries a forwarding pointer is that forwarding pointer, and broken is as
\* it was; any other value is NIL, and broken is T.  No value points into
\* from space.
C5_ScanWeakPointers ==
    glast.op = "scan_weak_pointers" =>
        /\ ~gc.lose
        /\ \A wp \in WeakList(glast.pre) :
               LET value == glast.pre.mem[wp_value(wp)]
                   broken == glast.pre.mem[wp_broken(wp)]
               IN /\ IF ~PointsToFromSpace(value)
                     THEN /\ gc.mem[wp_value(wp)] = value
                          /\ gc.mem[wp_broken(wp)] = broken
                     ELSE IF forwarding_pointer_p(glast.pre, native_pointer(value))
                     THEN /\ gc.mem[wp_value(wp)] = glast.pre.mem[native_pointer(value)]
                          /\ gc.mem[wp_broken(wp)] = broken
                          /\ broken = NIL
                     ELSE /\ gc.mem[wp_value(wp)] = NIL
                          /\ gc.mem[wp_broken(wp)] = T
                  /\ ~PointsToFromSpace(gc.mem[wp_value(wp)])

\* scan_weak_pointers has run over a list of two weak pointers, has updated
\* the value of one and has broken the other.
C5_Witness ==
    /\ glast.op = "scan_weak_pointers"
    /\ \E w1, w2 \in WeakList(glast.pre) :
           /\ PointsToFromSpace(glast.pre.mem[wp_value(w1)])
           /\ new_space_p(gc, gc.mem[wp_value(w1)])
           /\ gc.mem[wp_broken(w1)] = NIL
           /\ PointsToFromSpace(glast.pre.mem[wp_value(w2)])
           /\ gc.mem[wp_value(w2)] = NIL
           /\ gc.mem[wp_broken(w2)] = T

(***************************************************************************)
(*                 Properties of the list of threads                       *)
(***************************************************************************)

\* The record the collector is at in a traversal of all_threads.
Traversing ==
    wpc[Collector] \in {"stw_signal", "stw_scan", "gsw_loop"} /\ wcol.rest # <<>>

\* C11: a thread that traverses all_threads under the lock never comes to a
\* record whose pid is not set.
C11_PidSetWhenVisible ==
    Traversing => th_pid[Head(wcol.rest)] # 0

\* C12: a created thread sets its state to RUNNING and calls its function
\* only once its record is on all_threads; a record whose pid reads nonzero
\* is on the list.
C12_LinkedBeforeRunning ==
    /\ \A t \in Threads : th_pid[t] # 0 => InList(t)
    /\ wlast.op = "trampoline_running" => InList(wlast.t) /\ th_pid[wlast.t] # 0
    /\ wpc[Created] = "lisp" => InList(Created)

\* The created thread has just left its wait, set RUNNING and called its
\* function.
C12_Witness ==
    /\ wlast.op = "trampoline_running"
    /\ wlast.t = Created
    /\ th_state[Created] = STATE_RUNNING
    /\ wpc[Created] = "lisp"
    /\ InList(Created)

\* The threads between get_spinlock(&all_threads_lock, id) and the matching
\* release_spinlock, and the id each passed.
Holders ==
    {t \in Threads :
        \/ t = Collector /\ wpc[t] \in {"stw_signal", "gsw_loop"}
        \/ t = Creator /\ wpc[t] \in {"link_push", "link_release",
                                      "destroy_unlink", "destroy_release"}
        \/ whpc[t] \in {"h_state", "h_release"}}
LockId(t) ==
    IF whpc[t] \in {"h_state", "h_release"} THEN th_pid[t]
    ELSE IF t = Creator
    THEN (IF wpc[t] \in {"link_push", "link_release"} THEN Created ELSE th_pid[Created])
    ELSE th_pid[t]

\* C13: at most one thread is between get_spinlock(&all_threads_lock, id)
\* and the matching release_spinlock, and while the lock is held its word is
\* the id its holder passed.
C13_MutualExclusion ==
    /\ Cardinality(Holders) <= 1
    /\ \A t \in Holders : all_threads_lock = LockId(t)

(***************************************************************************)
(*                       Properties of trans_list                          *)
(***************************************************************************)

\* The conses trans_list is to copy from cons in collector state g: cons, and
\* along the cdrs every from-space cons that is not forwarded and not met
\* before.
RECURSIVE ListChain(_, _, _)
ListChain(g, cons, before) ==
    LET chain == Append(before, cons)
        cdr == g.mem[cons + N_WORD_BYTES]
    IN IF /\ lowtag_of(cdr) = LIST_POINTER_LOWTAG
          /\ from_space_p(cdr)
          /\ ~forwarding_pointer_p(g, native_pointer(cdr))
          /\ \A j \in 1..Len(chain) : chain[j] # native_pointer(cdr)
       THEN ListChain(g, native_pointer(cdr), chain)
       ELSE chain

\* C14: trans_list on a chain of k such conses makes k new conses in k
\* consecutive two-word slots from the free pointer on, in the order of the
\* chain, with the same cars, each new cdr the pointer to the next new cons
\* and the last cdr as it was; every cons of the chain is forwarded to its
\* copy, and nothing past the chain is copied.
C14_Linearized ==
    glast.op = "trans_list" =>
        LET pre == glast.pre
            chain == ListChain(pre, native_pointer(glast.object), <<>>)
            k == Len(chain)
            new(j) == pre.free + (j - 1) * 2 * N_WORD_BYTES
        IN /\ ~gc.lose
           /\ gc.free = pre.free + k * 2 * N_WORD_BYTES
           /\ glast.v = make_lispobj(new(1), LIST_POINTER_LOWTAG)
           /\ \A j \in 1..k :
                  /\ gc.mem[new(j)] = pre.mem[chain[j]]
                  /\ gc.mem[new(j) + N_WORD_BYTES] =
                         IF j < k THEN make_lispobj(new(j + 1), LIST_POINTER_LOWTAG)
                         ELSE pre.mem[chain[k] + N_WORD_BYTES]
                  /\ forwarding_pointer_p(gc, chain[j])
                  /\ forwarding_pointer_value(gc, chain[j])
                         = make_lispobj(new(j), LIST_POINTER_LOWTAG)
           /\ \A i \in ConsIndexes :
                  (\A j \in 1..k : chain[j] # ConsAt(i))
                      => gc.mem[ConsAt(i)] = pre.mem[ConsAt(i)]

\* trans_list has copied a chain of two conses or more after an earlier
\* transport, and the chain ended at a cdr that was forwarded before.
C14_Witness ==
    /\ glast.op = "trans_list"
    /\ Len(ListChain(glast.pre, native_pointer(glast.object), <<>>)) >= 2
    /\ glast.pre.free > new_space
    /\ LET last == gc.mem[gc.free - N_WORD_BYTES]
       IN /\ lowtag_of(last) = LIST_POINTER_LOWTAG
          /\ from_space_p(last)
          /\ forwarding_pointer_p(glast.pre, native_pointer(last))

(***************************************************************************)
(*                 Properties of code object transport                     *)
(***************************************************************************)

\* The functions of the code object, and where its copy is.
NumEntries == fixnum_value(gmem0[code_size(CodeBase)]) \div FunWords
CodeWords == CodeHeaderWords + NumEntries * FunWords
CodeCopies == {c \in Copies : c[1] = CodeBase}
CodeCopied == CodeCopies # {}
NewCode == (CHOOSE c \in CodeCopies : TRUE)[2]
InNewCode(w) == w >= NewCode /\ w < NewCode + CodeWords * N_WORD_BYTES
\* A pointer of the code object as it was, moved with the code object.
Moved(w) == IF w = NIL THEN NIL ELSE w + (NewCode - CodeBase)

\* C15: once the code object is transported, the self pointer of every entry
\* point's copy and every link of the copy's entry-point chain point into
\* the new block, as far from its base as they were from the old base.
C15_CodeRelocated ==
    CodeCopied =>
        /\ ~gc.lose
        /\ gc.mem[entry_points(NewCode)] = Moved(gmem0[entry_points(CodeBase)])
        /\ \A i \in 1..NumEntries :
               LET old == FunAt(i)
                   new == FunAt(i) + (NewCode - CodeBase)
               IN /\ gc.mem[fun_self(new)] - NewCode = gmem0[fun_self(old)] - CodeBase
                  /\ InNewCode(gc.mem[fun_self(new)])
                  /\ gc.mem[fun_next(new)] = Moved(gmem0[fun_next(old)])
                  /\ gc.mem[fun_next(new)] # NIL => InNewCode(gc.mem[fun_next(new)])
                  /\ widetag_of(gc.mem[new]) = SIMPLE_FUN_HEADER_WIDETAG

\* The collection is over and has moved a code object with two entry points
\* or more behind another copy.
C15_Witness ==
    /\ gphase = "done"
    /\ CodeCopied
    /\ NumEntries >= 2
    /\ NewCode > new_space
    /\ gc.mem[entry_points(NewCode)] # NIL

\* The words that referred to the code object or to one of its functions,
\* once scavenged: the roots done, and when the collection is over the words
\* of the copies.
CodeSlots ==
    {<<r, gmem0[r]>> : r \in Roots \ groots}
        \cup (IF gphase = "done"
              THEN {<<c[2], gmem0[c[1]]>> : c \in {d \in Copies : d[1] = cons_X}}
                       \cup {<<NewCode + 3 * N_WORD_BYTES,
                               gmem0[CodeBase + 3 * N_WORD_BYTES]>> : c \in CodeCopies}
              ELSE {})

\* C16: the code object is copied once, however it is reached and in whatever
\* order; the forwarding pointer trans_code leaves at each function header is
\* the pointer trans_fun_header returns for that function; every word that
\* referred to the code object or to a function of it refers to the one copy.
C16_CodeCopiedOnce ==
    /\ ~gc.lose
    /\ Cardinality({i \in 1..Len(gc.log) : InRange(gc.log[i][1], CodeBase, CodeWords)}) <= 1
    /\ (glast.op = "scavenge" /\ CodeCopied /\ ~forwarding_pointer_p(glast.pre, CodeBase))
           => \A i \in 1..NumEntries :
                  /\ forwarding_pointer_p(gc, FunAt(i))
                  /\ forwarding_pointer_value(gc, FunAt(i))
                         = trans_fun_header(glast.pre, FunPtr(i)).v
    /\ \A sl \in CodeSlots :
           (sl[2] = pCode \/ sl[2] \in FunPtrs(NumEntries)) =>
               /\ CodeCopied
               /\ gc.mem[sl[1]] = Moved(sl[2])
               /\ gc.mem[sl[1]] = forwarding_pointer_value(gc, native_pointer(sl[2]))

\* The collection is over; one root referred to the code object by its
\* header, another to its second function, and a cons to a function.
C16_Witness ==
    /\ gphase = "done"
    /\ NumEntries >= 2
    /\ \E a, b \in Roots :
           /\ gmem0[a] = pCode
           /\ gmem0[b] = FunPtr(2)
           /\ gc.mem[a] = Moved(pCode)
           /\ gc.mem[b] = Moved(FunPtr(2))
    /\ \E sl \in CodeSlots : sl[1] \notin Roots /\ sl[2] \in FunPtrs(NumEntries)

\* ==========================================================================
\* Properties of purify
\* ==========================================================================
Purified == plast.op = "purify"
Refused == Purified /\ fixnum_value(plast.pre.FREE_INTERRUPT_CONTEXT_INDEX) # 0
Completed == Purified /\ ~Refused /\ ~pur.lose

\* C17: called while an interrupt context is present
\* (FREE_INTERRUPT_CONTEXT_INDEX nonzero), purify returns 0 and changes
\* nothing: memory (so no copy, no forwarding pointer, no zeroing of the
\* dynamic space), the free pointers and purify's own globals are what they
\* were before the call.
C17_InterruptContextRefuses ==
    Refused => plast.ret = 0 /\ pur = plast.pre

\* purify has refused a heap whose roots point into the dynamic space.
C17_Witness ==
    /\ Refused
    /\ plast.pre.mem[root_1] = pA
    /\ plast.pre.mem[addr_read_only_roots] = pI

\* What the heap held before the call: the objects of the dynamic space, the
\* offsets of their descriptor words, and what the roots reach.
PObjects == {cons_A, cell_V, bignum_N, inst_I}
PWords(o) ==
    IF o = cons_A THEN 2
    ELSE CEILING(HeaderValue(plast.pre.mem[o]) + 1, 2)
PSlots(o) ==
    CASE o = cons_A -> {0, 4}
      [] o = cell_V -> {4}
      [] o = inst_I -> {4, 8, 12}
      [] OTHER -> {}
PointsToDynamic(w) ==
    /\ is_lisp_pointer(w)
    /\ native_pointer(w) >= DYNAMIC_SPACE_START
    /\ native_pointer(w) < DYNAMIC_SPACE_START + DYNAMIC_SPACE_SIZE
PRootWords ==
    {addr_static_roots, addr_read_only_roots}
        \cup WordsOf(STATIC_SPACE_START, plast.pre.STATIC_SPACE_FREE_POINTER)
PTargets(words) ==
    {native_pointer(plast.pre.mem[a]) :
        a \in {x \in words : PointsToDynamic(plast.pre.mem[x])}}
RECURSIVE PReachFrom(_)
PReachFrom(objs) ==
    LET more == objs \cup PTargets(UNION {{o + k : k \in PSlots(o)} : o \in objs})
    IN IF more = objs THEN objs ELSE PReachFrom(more)
PReach == PReachFrom(PTargets(PRootWords))

\* The copies purify made, and where a word of the old heap points now.
PCopies == {pur.log[i] : i \in 1..Len(pur.log)}
PNewOf(o) == (CHOOSE e \in PCopies : e[1] = o)[2]
PFwd(w) ==
    IF PointsToDynamic(w)
    THEN make_lispobj(PNewOf(native_pointer(w)), lowtag_of(w))
    ELSE w
InReadOnly(a) ==
    a >= plast.pre.READ_ONLY_SPACE_FREE_POINTER /\ a < pur.READ_ONLY_SPACE_FREE_POINTER
InStatic(a) ==
    a >= plast.pre.STATIC_SPACE_FREE_POINTER /\ a < pur.STATIC_SPACE_FREE_POINTER

\* The words purify is answerable for: all of static space and what it added
\* to read-only space, less the raw data of the unboxed objects it copied.
PRawWords ==
    UNION {{e[2] + k : k \in WordsOf(4, PWords(e[1]) * N_WORD_BYTES) \ PSlots(e[1])} :
              e \in PCopies}
PurifiedWords ==
    (WordsOf(STATIC_SPACE_START, pur.STATIC_SPACE_FREE_POINTER)
        \cup WordsOf(plast.pre.READ_ONLY_SPACE_FREE_POINTER,
                     pur.READ_ONLY_SPACE_FREE_POINTER)) \ PRawWords

\* The collection that follows, as far as static space goes: collect_garbage
\* scavenges it, the dynamic space being from space.
CollectionAfter ==
    scavenge(GcStart(pur.mem), STATIC_SPACE_START,
             (pur.STATIC_SPACE_FREE_POINTER - STATIC_SPACE_START) \div N_WORD_BYTES)

\* C18: after purify has completed, (1) no word of static space and no word
\* it added to read-only space points into the dynamic space; (2) every
\* object the roots reached has a copy in read-only or static space, with the
\* roots and the copies' slots pointing to the copies; (3) the dynamic space
\* is zero and the dynamic free pointer is back at its start; (4) a
\* collection that follows changes no word of static or read-only space.
C18_NothingLeftInDynamic ==
    Completed =>
        /\ \A a \in PurifiedWords : ~PointsToDynamic(pur.mem[a])
        /\ \A o \in PReach :
               /\ \E e \in PCopies : e[1] = o
               /\ InReadOnly(PNewOf(o)) \/ InStatic(PNewOf(o))
               /\ 0 \notin PSlots(o) => pur.mem[PNewOf(o)] = plast.pre.mem[o]
               /\ \A k \in PSlots(o) :
                      pur.mem[PNewOf(o) + k] = PFwd(plast.pre.mem[o + k])
        /\ \A a \in PRootWords : pur.mem[a] = PFwd(plast.pre.mem[a])
        /\ \A a \in WordsOf(DYNAMIC_SPACE_START,
                            DYNAMIC_SPACE_START + DYNAMIC_SPACE_SIZE) :
               pur.mem[a] = 0
        /\ pur.dynamic_space_free_pointer = current_dynamic_space
        /\ ~CollectionAfter.lose
        /\ CollectionAfter.mem = pur.mem

\* purify has completed on a heap where all four objects were reachable, and
\* has put copies into both spaces.
C18_Witness ==
    /\ Completed
    /\ PReach = PObjects
    /\ \E o \in PReach : InReadOnly(PNewOf(o))
    /\ \E o \in PReach : InStatic(PNewOf(o))

PureFlag == plast.pre.mem[layout_pure(plast.pre.mem[instance_slot(inst_I, 0)])]
PLogIndex(o) == CHOOSE i \in 1..Len(pur.log) : pur.log[i][1] = o
\* The cons in the instance's slot was first reached through the instance,
\* so where its copy went shows how the instance's contents were scavenged.
ConsMovedThroughInstance ==
    /\ plast.pre.mem[instance_slot(inst_I, 1)] = pA
    /\ PLogIndex(cons_A) > PLogIndex(inst_I)

\* C19: purify places an instance by the pure flag of its layout alone. With
\* T the copy is in read-only space and its contents are scavenged as
\* constant; with NIL the copy is in static space and its contents are
\* scavenged as mutable; with 0 the copy is in static space and its contents
\* are scavenged as constant; with any other flag purify fails fatally. This
\* holds whether the instance was reached from a constant or a mutable
\* context.
C19_PlacedByPureFlag ==
    (Purified /\ ~Refused /\ inst_I \in PReach) =>
        /\ pur.lose <=> PureFlag \notin {T, NIL, 0}
        /\ ~pur.lose =>
               /\ PureFlag = T => InReadOnly(PNewOf(inst_I))
               /\ PureFlag \in {NIL, 0} => InStatic(PNewOf(inst_I))
               /\ ConsMovedThroughInstance =>
                      /\ PureFlag \in {T, 0} => InReadOnly(PNewOf(cons_A))
                      /\ PureFlag = NIL => InStatic(PNewOf(cons_A))

\* An instance with pure flag 0, first reached from the read-only roots, has
\* gone to static space and the cons in its slot to read-only space.
C19_Witness ==
    /\ Completed
    /\ plast.pre.mem[addr_read_only_roots] = pI
    /\ plast.pre.mem[addr_static_roots] = NIL
    /\ PureFlag = 0
    /\ ConsMovedThroughInstance
    /\ InStatic(PNewOf(inst_I))
    /\ InReadOnly(PNewOf(cons_A))

\* ==========================================================================
\* Properties of cyclic heaps
\* ==========================================================================
CollectionDone == gphase = "done"
CopiedOnceByCollector ==
    /\ ~gc.lose
    /\ \A i, j \in 1..Len(gc.log) : gc.log[i][1] = gc.log[j][1] => i = j
    /\ CollectionDone => StrongReach(gmem0) = Copied
CopiedOnceByPurify ==
    Purified =>
        /\ ~pur.lose
        /\ \A i, j \in 1..Len(pur.log) : pur.log[i][1] = pur.log[j][1] => i = j
        /\ PReach = {e[1] : e \in PCopies}

\* C20: on cyclic object graphs the collector and purify copy every
\* reachable object exactly once and fail nowhere, and both come to their
\* end.
C20_CyclesCopiedOnce ==
    /\ [](CopiedOnceByCollector /\ CopiedOnceByPurify)
    /\ <>(CollectionDone /\ Purified)

\* Both have finished: the collector on a circular list whose first cons is
\* also its own car, purify on an instance and a value cell that hold
\* themselves.
C20_Witness ==
    /\ CollectionDone
    /\ Purified
    /\ gmem0[cons_A] = pA /\ gmem0[cons_A + 4] = pB /\ gmem0[cons_B + 4] = pA
    /\ plast.pre.mem[instance_slot(inst_I, 1)] = pI
    /\ plast.pre.mem[cell_V + 4] = pV
    /\ Cardinality(Copied) >= 2
    /\ Cardinality(PCopies) >= 2

\* ==========================================================================
\* Properties of the transport and size tables
\* ==========================================================================
Transported == glast.op = "transother"
TransportedWidetag == widetag_of(glast.pre.mem[native_pointer(glast.object)])
WordsCopied == (gc.free - glast.pre.free) \div N_WORD_BYTES

\* C21: the words a transport routine copies are the words the size routine
\* of the same widetag gives for the original, and the size routine gives the
\* same number for the copy.
C21_TransportMatchesSize ==
    Transported =>
        /\ ~gc.lose
        /\ glast.v # glast.object
        /\ WordsCopied = call_sizetab(sizetab(TransportedWidetag), glast.pre,
                                      native_pointer(glast.object))
        /\ WordsCopied = call_sizetab(sizetab(TransportedWidetag), gc,
                                      native_pointer(glast.v))
        /\ \A k \in 0..1 :
               gc.mem[native_pointer(glast.v) + k * N_WORD_BYTES]
                   = glast.pre.mem[native_pointer(glast.object) + k * N_WORD_BYTES]

\* A vector of bytes whose length is no multiple of the bytes in a word has
\* been transported.
C21_Witness ==
    /\ Transported
    /\ TransportedWidetag = SIMPLE_ARRAY_UNSIGNED_BYTE_8_WIDETAG
    /\ fixnum_value(gc.mem[vector_length(native_pointer(glast.v))]) = 9
    /\ WordsCopied = 6

\* ==========================================================================
\* Properties of two collections in succession
\* ==========================================================================
SecondCollection == gc.flips = 1
SecondCollectionDone == SecondCollection /\ gphase = "done"

\* C22 (as stated): the second of two collections in succession moves
\* nothing; every live object is at the place the first collection left it.
C22_SecondMovesNothing ==
    SecondCollection =>
        \A i \in DOMAIN gc.log :
            PlaceOf(gc.flips, gc.log[i][2]) = PlaceOf(gc.flips, gc.log[i][1])

\* C22 (amended): the second collection copies every object the first one
\* kept, once, out of the semispace the first one filled and into the other
\* one; it moves as many objects as the first, the strongly reachable ones.
C22_SecondMovesEverySurvivor ==
    /\ ~gc.lose
    /\ SecondCollection =>
           /\ \A i \in DOMAIN gc.log :
                  /\ from_space_p(gc.log[i][1])
                  /\ PlaceOf(gc.flips, gc.log[i][1]) >= new_space
                  /\ PlaceOf(gc.flips, gc.log[i][2]) < new_space
                  /\ \A j \in DOMAIN gc.log : i # j => gc.log[i][1] # gc.log[j][1]
           /\ gc.moved = Cardinality(StrongReach(gmem0))
           /\ Len(gc.log) <= gc.moved
    /\ SecondCollectionDone =>
           /\ Len(gc.log) = gc.moved
           /\ \A r \in Roots :
                  is_lisp_pointer(gc.mem[r]) /\ InSemispaces(native_pointer(gc.mem[r]))
                      => new_space_p(gc, gc.mem[r])

\* The second collection has moved four objects.
C22_Witness ==
    /\ SecondCollectionDone
    /\ Len(gc.log) = 4
    /\ gc.moved = 4

\* ==========================================================================
\* Properties of gc_init_tables
\* ==========================================================================
TablesDone == gphase = "tables" /\ glast.pc = Len(GcInitTablesProgram) + 1
TableEntry(tab, i) == glast.tables[tab][i]
Lose(tab, i) == TableEntry(tab, i) = LoseOf(tab)

\* The header widetags the specification names: bignum, ratio, the float
\* kinds, the simple vector kinds, code, symbol, fdefn, weak pointer, instance.
FloatWidetags ==
    {Widetag.SINGLE_FLOAT, Widetag.DOUBLE_FLOAT, Widetag.COMPLEX_SINGLE_FLOAT,
     Widetag.COMPLEX_DOUBLE_FLOAT}
SpecializedVectorWidetags ==
    {Widetag.SIMPLE_BASE_STRING, Widetag.SIMPLE_CHARACTER_STRING,
     Widetag.SIMPLE_BIT_VECTOR, Widetag.SIMPLE_ARRAY_NIL,
     Widetag.SIMPLE_ARRAY_UNSIGNED_BYTE_2, Widetag.SIMPLE_ARRAY_UNSIGNED_BYTE_4,
     Widetag.SIMPLE_ARRAY_UNSIGNED_BYTE_7, SIMPLE_ARRAY_UNSIGNED_BYTE_8_WIDETAG,
     Widetag.SIMPLE_ARRAY_UNSIGNED_BYTE_15, Widetag.SIMPLE_ARRAY_UNSIGNED_BYTE_16,
     Widetag.SIMPLE_ARRAY_UNSIGNED_BYTE_29, Widetag.SIMPLE_ARRAY_UNSIGNED_BYTE_31,
     Widetag.SIMPLE_ARRAY_UNSIGNED_BYTE_32, Widetag.SIMPLE_ARRAY_SIGNED_BYTE_8,
     Widetag.SIMPLE_ARRAY_SIGNED_BYTE_16, Widetag.SIMPLE_ARRAY_SIGNED_BYTE_30,
     Widetag.SIMPLE_ARRAY_SIGNED_BYTE_32, Widetag.SIMPLE_ARRAY_SINGLE_FLOAT,
     Widetag.SIMPLE_ARRAY_DOUBLE_FLOAT, Widetag.SIMPLE_ARRAY_COMPLEX_SINGLE_FLOAT,
     Widetag.SIMPLE_ARRAY_COMPLEX_DOUBLE_FLOAT}
NamedWidetags ==
    {BIGNUM_WIDETAG, Widetag.RATIO, CODE_HEADER_WIDETAG, Widetag.SYMBOL_HEADER,
     Widetag.FDEFN, WEAK_POINTER_WIDETAG, INSTANCE_HEADER_WIDETAG,
     SIMPLE_VECTOR_WIDETAG}
        \cup FloatWidetags \cup SpecializedVectorWidetags
LeftToTheCollector == {SIMPLE_VECTOR_WIDETAG, WEAK_POINTER_WIDETAG}

\* C23 (as stated): after gc_init_tables every named header widetag has a
\* non-lose entry in each of the scavenge, transport and size tables.
C23_NamedWidetagsInAllThree ==
    TablesDone =>
        \A w \in NamedWidetags :
            \A tab \in {"scavtab", "transother", "sizetab"} : ~Lose(tab, w)

\* C23 (amended): after gc_init_tables every named header widetag has a
\* non-lose entry in the transport and size tables, and in the scavenge table
\* too unless it is the general simple vector or the weak pointer, whose
\* scavenge entries gc_init_tables leaves at lose.
C23_NamedWidetagsButTwoScavengers ==
    TablesDone =>
        /\ \A w \in NamedWidetags :
               /\ ~Lose("transother", w) /\ TableEntry("transother", w) # "null"
               /\ ~Lose("sizetab", w) /\ TableEntry("sizetab", w) # "null"
               /\ TableEntry("scavtab", w) # "null"
               /\ Lose("scavtab", w) <=> w \in LeftToTheCollector
        /\ TableEntry("transother", SIMPLE_VECTOR_WIDETAG) = "trans_vector"
        /\ TableEntry("transother", WEAK_POINTER_WIDETAG) = "trans_weak_pointer"

\* gc_init_tables has returned, with the named widetags among its entries.
C23_Witness ==
    /\ TablesDone
    /\ Cardinality(NamedWidetags) = 33
    /\ TableEntry("scavtab", BIGNUM_WIDETAG) = "scav_unboxed"
    /\ TableEntry("sizetab", WEAK_POINTER_WIDETAG) = "size_weak_pointer"
    /\ Lose("scavtab", WEAK_POINTER_WIDETAG)

\* The indices a table is assigned at after its fill with the lose entry.
AssignedIn(tab) ==
    {GcInitTablesProgram[k].at :
        k \in {j \in DOMAIN GcInitTablesProgram :
                  GcInitTablesProgram[j].op = "set" /\ GcInitTablesProgram[j].tab = tab}}
    \cup UNION {{LowtagEntries(tab, GcInitTablesProgram[k].i)[e][1] : e \in 1..6} :
                 k \in {j \in DOMAIN GcInitTablesProgram :
                           GcInitTablesProgram[j].op = "lowtags"
                           /\ GcInitTablesProgram[j].tab = tab}}
PointerScavenger(lowtag) ==
    CASE lowtag = FUN_POINTER_LOWTAG -> "scav_fun_pointer"
      [] lowtag = LIST_POINTER_LOWTAG -> "scav_list_pointer"
      [] lowtag = INSTANCE_POINTER_LOWTAG -> "scav_instance_pointer"
      [] lowtag = OTHER_POINTER_LOWTAG -> "scav_other_pointer"
      [] OTHER -> "none"
PointerLowtags ==
    {FUN_POINTER_LOWTAG, LIST_POINTER_LOWTAG, INSTANCE_POINTER_LOWTAG,
     OTHER_POINTER_LOWTAG}
LowtagLoopDone ==
    gphase = "tables" /\ glast.pc > 1 + 2^(N_WIDETAG_BITS - N_LOWTAG_BITS)

\* C24: once the loop over the high bits has run, each of the 32 scavenge
\* table indices whose low three bits are a pointer lowtag holds that
\* lowtag's pointer scavenger, through every later assignment of
\* gc_init_tables; and when gc_init_tables returns, an index that no
\* statement assigned holds the lose entry, in each of the three tables.
C24_LowtagEntriesStay ==
    /\ LowtagLoopDone =>
           \A idx \in TableIndices :
               idx % 2^N_LOWTAG_BITS \in PointerLowtags
                   => TableEntry("scavtab", idx)
                          = PointerScavenger(idx % 2^N_LOWTAG_BITS)
    /\ TablesDone =>
           \A tab \in {"scavtab", "transother", "sizetab"} :
               \A idx \in TableIndices :
                   idx \notin AssignedIn(tab) => Lose(tab, idx)

\* gc_init_tables has returned: the last index holds the other-pointer
\* scavenger, and indices no statement names hold lose.
C24_Witness ==
    /\ TablesDone
    /\ TableEntry("scavtab", 2^N_WIDETAG_BITS - 1) = "scav_other_pointer"
    /\ 2 \notin AssignedIn("scavtab") /\ Lose("scavtab", 2)
    /\ OTHER_POINTER_LOWTAG \notin AssignedIn("transother")
    /\ Lose("transother", OTHER_POINTER_LOWTAG)
    /\ Cardinality(AssignedIn("scavtab")) = 6 * 32 + Len(ScavtabAssignments)

\* ==========================================================================
\* Properties of the blockable signal set
\* ==========================================================================
JobControlSignals == {"SIGTSTP", "SIGHUP", "SIGINT", "SIGQUIT"}
AlarmSignals == {"SIGALRM", "SIGVTALRM", "SIGPROF"}
ChildSignals == {"SIGCHLD"}
IOSignals == {"SIGIO", "SIGURG", "SIGPIPE"}
UserDefinedSignals == {"SIGUSR1", "SIGUSR2"}
GcCoordinationSignals == {SIG_STOP_FOR_GC, "SIG_INTERRUPT_THREAD"}
NamedBlockable ==
    JobControlSignals \cup AlarmSignals \cup ChildSignals \cup IOSignals
        \cup UserDefinedSignals \cup GcCoordinationSignals
MemoryFaultSignals == {SIG_MEMORY_FAULT, "SIGBUS"}
TrapSignals == {"SIGTRAP", "SIGILL"}
FloatingPointErrorSignals == {"SIGFPE"}
\* The thread's mask has been through sigaddset_blockable.
MaskBuilt == sth.mask # {}

\* C25 (as stated): a set built by sigaddset_blockable holds the job-control,
\* alarm, child, IO, user-defined and GC-coordination signals and none of
\* memory fault, trap and floating-point error.
C25_BlockableExcludesFPE ==
    MaskBuilt =>
        /\ NamedBlockable \subseteq sth.mask
        /\ sth.mask \cap (MemoryFaultSignals \cup TrapSignals
                              \cup FloatingPointErrorSignals) = {}

\* C25 (amended): a set built by sigaddset_blockable holds the job-control,
\* alarm, child, IO, user-defined and GC-coordination signals and the
\* floating-point error signal too; memory fault and trap are never in it.
C25_BlockableIncludesFPE ==
    /\ sth.mask \cap (MemoryFaultSignals \cup TrapSignals) = {}
    /\ MaskBuilt =>
           /\ NamedBlockable \subseteq sth.mask
           /\ FloatingPointErrorSignals \subseteq sth.mask
           /\ sth.mask = sigaddset_blockable({})

\* A signal has been deferred and the blockable signals are in the mask.
C25_Witness ==
    /\ MaskBuilt
    /\ sth.pending_signal = "SIGINT"
    /\ sth.pending_mask = {}

\* ==========================================================================
\* Properties of the interrupt context stack
\* ==========================================================================
ActiveCalls == SelectSeq(gframes, LAMBDA f : f.kind = "call")
FreeIndex == fixnum_value(SymbolValue(bst, FREE_INTERRUPT_CONTEXT_INDEX))

\* C26: through properly nested calls FREE_INTERRUPT_CONTEXT_INDEX is the
\* number of open calls and interrupt_contexts[i] is the context of the
\* i-th of them; an undo leaves the index and the binding stack pointer as
\* its call found them; the call at depth MAX_INTERRUPTS is fatal and writes
\* no context slot, so the depth never exceeds MAX_INTERRUPTS.
C26_ContextStackMatchesNesting ==
    /\ ~bst.fault
    /\ FreeIndex = Len(ActiveCalls)
    /\ Len(ActiveCalls) <= MAX_INTERRUPTS
    /\ \A i \in 1..Len(ActiveCalls) :
           bst.interrupt_contexts[i - 1] = ActiveCalls[i].context
    /\ blast.op = "undo_fake_foreign_function_call" =>
           /\ SymbolValue(bst, FREE_INTERRUPT_CONTEXT_INDEX) = blast.frame.index
           /\ GetBSP(bst) = blast.frame.bsp
    /\ blast.op = "fake_foreign_function_call" =>
           /\ bst.lost <=>
                  fixnum_value(SymbolValue(blast.pre, FREE_INTERRUPT_CONTEXT_INDEX))
                      >= MAX_INTERRUPTS
           /\ bst.lost =>
                  /\ bst.interrupt_contexts = blast.pre.interrupt_contexts
                  /\ GetBSP(bst) = GetBSP(blast.pre)
                  /\ bst.val = blast.pre.val
           /\ ~bst.lost =>
                  /\ FreeIndex = Len(SelectSeq(gframes, LAMBDA f : f.kind = "call"))
                  /\ GetBSP(bst) = GetBSP(blast.pre) + 1

\* The innermost of MAX_INTERRUPTS nested calls, entered above a binding of
\* the handler below it, has been undone.
C26_Witness ==
    /\ blast.op = "undo_fake_foreign_function_call"
    /\ fixnum_value(blast.frame.index) = MAX_INTERRUPTS - 1
    /\ blast.frame.bsp = MAX_INTERRUPTS
    /\ Len(gframes) = MAX_INTERRUPTS
    /\ gframes[Len(gframes)].kind = "bind"

\* The call at depth MAX_INTERRUPTS has been fatal.
C26_Fatal == bst.lost /\ Len(ActiveCalls) = MAX_INTERRUPTS

\* ==========================================================================
\* Properties of destroy_thread
\* ==========================================================================
Unmapped(t) == th_state[t] = NoThread
Without(list, th) == SelectSeq(list, LAMBDA t : t # th)

\* C27 (as stated): the record's ranges are unmapped before the lock is
\* released, and exactly the given record leaves all_threads, the others
\* keeping their order.
C27_UnmappedUnderLock ==
    /\ wlast.op = "unlink" => all_threads = Without(wlast.pre, Created)
    /\ wpc[Creator] = "destroy_release" => Unmapped(Created)

\* C27 (amended): destroy_thread acquires the lock, unlinks the record,
\* releases the lock and only then unmaps the record's ranges; exactly the
\* given record leaves all_threads, the others keeping their order.
C27_UnmappedAfterRelease ==
    /\ wpc[Creator] = "destroy_unlink" /\ th_pid[Created] # 0
           => all_threads_lock = th_pid[Created]
    /\ wlast.op = "unlink" =>
           /\ all_threads = Without(wlast.pre, Created)
           /\ Len(all_threads) = Len(wlast.pre)
                                     - (IF OnList(wlast.pre, Created) THEN 1 ELSE 0)
    /\ wpc[Creator] \in {"destroy_lock", "destroy_unlink", "destroy_release"}
           => ~Unmapped(Created)
    /\ wpc[Creator] = "destroy_invalidate" =>
           /\ ~Unmapped(Created)
           /\ all_threads_lock = 0
           /\ ~OnList(all_threads, Created)
    /\ Unmapped(Created) =>
           /\ wpc[Creator] = "lisp"
           /\ all_threads_lock = 0
           /\ ~OnList(all_threads, Created)

\* A child that was on the list with two others has been unlinked and the
\* lock released; its ranges are still mapped.
C27_Witness ==
    /\ wpc[Creator] = "destroy_invalidate"
    /\ th_pid[Created] # 0
    /\ Len(all_threads) = 2
    /\ all_threads_lock = 0
    /\ ~Unmapped(Created)

\* ==========================================================================
\* Properties of the tag predicates and of fixnums
\* ==========================================================================
Classified == gphase = "word" /\ glast.op = "classify"
OtherImmediateLowtags == {2, 6}
FixnumLowtags == {EVEN_FIXNUM_LOWTAG, ODD_FIXNUM_LOWTAG}
ClassesOf(r) ==
    {c \in {"pointer", "fixnum", "other-immediate"} :
        \/ c = "pointer" /\ r.pointer
        \/ c = "fixnum" /\ r.fixnum
        \/ c = "other-immediate" /\ r.lowtag \in OtherImmediateLowtags}

\* C28: is_lisp_pointer(w) holds exactly when lowtag_of(w) is one of the four
\* pointer lowtags, and every word is exactly one of pointer, fixnum and
\* other-immediate or header.
C28_PointerIffPointerLowtag ==
    Classified =>
        /\ glast.pointer <=> glast.lowtag \in PointerLowtags
        /\ glast.fixnum <=> glast.lowtag \in FixnumLowtags
        /\ Cardinality(ClassesOf(glast)) = 1

\* A word with the top bit set has been classified as a pointer.
C28_Witness ==
    /\ Classified
    /\ glast.w < 0
    /\ glast.lowtag = LIST_POINTER_LOWTAG
    /\ ClassesOf(glast) = {"pointer"}

RoundTripped == gphase = "word" /\ glast.op = "make_fixnum"

\* C29: for n in the fixnum range, negative n included,
\* fixnum_value(make_fixnum(n)) is n, and make_fixnum(n) has its two low bits
\* clear and is no pointer.
C29_FixnumRoundTrip ==
    RoundTripped /\ InFixnumRange(glast.n) =>
        /\ glast.back = glast.n
        /\ glast.word % 4 = 0
        /\ ~is_lisp_pointer(glast.word)
        /\ fixnump(glast.word)

\* The most negative fixnum has made the round trip.
C29_Witness ==
    /\ RoundTripped
    /\ glast.n = MOST_NEGATIVE_FIXNUM
    /\ glast.back = MOST_NEGATIVE_FIXNUM
    /\ glast.word < 0

\* Outside the fixnum range the round trip loses the high bits.
OutOfRangeWraps ==
    RoundTripped /\ ~InFixnumRange(glast.n) => glast.back # glast.n


\* ---- Properties of a round of gc_stop_the_world --------------------------

\* The collector is at the completion check of a round: the comparison of
\* old_pid with all_threads->pid, or the for_each_thread scan behind it.
AtCompletionCheck ==
    wpc[Collector] \in {"stw_check", "stw_scan_begin", "stw_scan"}

\* The new thread was pushed on all_threads after the round in progress
\* began: it is at the head now, and the old_pid the round read under the
\* lock is the pid of another thread (the new thread's pid is 0 or its own).
JoinedSinceRoundBegan ==
    /\ all_threads # <<>>
    /\ Head(all_threads) = Created
    /\ wcol.old_pid \notin {0, Created}

\* gc_stop_the_world has just returned to its caller.
StopTheWorldReturned ==
    wpc[Collector] = "collecting" /\ wlast.op = "stw_return"

\* C30 (first half): the completion check of a round is made while the
\* collector holds all_threads_lock.
C30_CheckMadeUnderLock ==
    AtCompletionCheck => all_threads_lock = th_pid[Collector]

\* C30: a thread linked into all_threads after the round began forces
\* another round, so gc_stop_the_world never returns from a round during
\* which a thread joined the list.
C30_LinkForcesAnotherRound ==
    StopTheWorldReturned => ~JoinedSinceRoundBegan

\* The case the head comparison does catch (a reachable state): the thread
\* joined between the round's get_spinlock and the comparison, and the
\* collector goes round again.
C30_CaughtByHeadCheck ==
    wpc[Collector] = "stw_again" /\ JoinedSinceRoundBegan


\* ---- Properties of resuming and of termination under fair scheduling ----

\* The OS has suspended the peer: it took the SIGSTOP it sent itself and no
\* SIGCONT since.
Suspended(t) == t \in wstopped

\* C31: every peer stopped for a collection eventually runs again, in every
\* interleaving of the collector's gc_start_the_world with the peer's
\* handler.
C31_StoppedPeerResumes ==
    \A t \in Peers : Suspended(t) ~> ~Suspended(t)

\* C31, the interleaving it names, as a state: gc_start_the_world has made
\* the peer RUNNING and sent SIGCONT while the peer was between
\* thread->state=STATE_STOPPED and kill(thread->pid,SIGSTOP); the SIGCONT did
\* nothing, the SIGSTOP then suspends the peer with nobody left to resume it.
C31_NoneSuspendedOutsideCollection ==
    wpc[Collector] = "lisp" => \A t \in Peers : ~Suspended(t)


\* The collector is inside gc_stop_the_world.
InStopTheWorld ==
    wpc[Collector] \in {"stw_signal", "stw_check", "stw_scan_begin",
                        "stw_scan", "stw_again"}

\* The peer missed the SIGCONT of the last gc_start_the_world (C31): it is
\* not STOPPED any more, and it is suspended or about to suspend itself.
LostResume(t) ==
    /\ th_state[t] # STATE_STOPPED
    /\ Suspended(t) \/ whpc[t] = "h_kill"

\* C32: under fair scheduling gc_stop_the_world eventually returns; it never
\* spins for ever on a peer left in state STOPPING.
C32_StopTheWorldReturns ==
    InStopTheWorld ~> wpc[Collector] = "collecting"

\* What is left of C32: gc_stop_the_world returns unless a peer has missed
\* its resume.
C32_ReturnsUnlessLostResume ==
    InStopTheWorld ~> (wpc[Collector] = "collecting" \/ \E t \in Peers : LostResume(t))

\* The spin of C32 (a reachable state): the collector goes round again with
\* a suspended peer in state STOPPING.
C32_SpinsOnStopping ==
    /\ wpc[Collector] = "stw_again"
    /\ \E t \in Peers : th_state[t] = STATE_STOPPING /\ Suspended(t)


\* ---- Properties of the stop signals of one call --------------------------

\* C33: during one call of gc_stop_the_world each peer is sent
\* SIG_STOP_FOR_GC at most once, however many rounds the loop takes.
C33_SignalledAtMostOncePerCall ==
    \A t \in Peers : wcol.sent[t] <= 1

\* The loop's own step, as the second half of C33 describes it: the thread
\* the loop signals is RUNNING before the step and STOPPING after it.
C33_SignalledWhenRunning ==
    [][\A p \in Peers :
          (wpc[Collector] = "stw_signal" /\ wcol'.sent[p] > wcol.sent[p]
           /\ wcol.rest # <<>> /\ Head(wcol.rest) = p)
          => (th_state[p] = STATE_RUNNING /\ th_state'[p] = STATE_STOPPING)]_vars


\* ---- Properties of concurrent link_thread calls --------------------------

\* The records on all_threads whose pid is 0.
PidZeroOnList ==
    {i \in 1..Len(all_threads) : th_pid[all_threads[i]] = 0}

\* C34: at every moment at most one record on all_threads has pid 0, under
\* any interleaving of concurrent link_thread calls.
C34_AtMostOnePidZero ==
    Cardinality(PidZeroOnList) <= 1

\* C34, its conclusion: find_thread_by_pid(0) inside link_thread finds the
\* record being linked.
C34_GuardFindsLinkedRecord ==
    wlast.op = "guard" => wlast.found = wlast.th

\* The guard page is looked up with another pid-0 record further down the
\* list (a reachable state): the record being linked is found because it is
\* the head and the search starts there.
C34_FoundAtHeadAmongTwo ==
    /\ wlast.op = "guard"
    /\ wlast.found = wlast.th
    /\ Cardinality(PidZeroOnList) = 2


\* ---- Properties of the pending record ------------------------------------

\* C35: no deferred signal is lost: a handler is stored in the pending
\* record only when the record is empty, so nothing is stored over a handler
\* that has not been run yet.
C35_NothingStoredOverPending ==
    slast.op = "deferred" => slast.before.pending_handler = NULL

\* What of C35 the signal mask does ensure: store_signal_data_for_later
\* blocks the blockable signals until the pending handler has run, so the
\* handler of a blockable signal is never stored over a pending one.
C35_BlockableNotStoredOverPending ==
    (slast.op = "deferred" /\ slast.signal \in UserSignals)
        => slast.before.pending_handler = NULL

\* The overwrite (a reachable state): the memory fault of the GC trigger is
\* deferred while the handler of a blockable signal is pending.
C35_FaultStoredOverSignal ==
    /\ slast.op = "deferred"
    /\ slast.signal = SIG_MEMORY_FAULT
    /\ slast.before.pending_handler = "interrupt_handle_now"
    /\ sth.pending_handler = "interrupt_maybe_gc_int"


SameOutcome(a, b) ==
    /\ a.bsp = b.bsp
    /\ a.val = b.val
    /\ a.fault = b.fault
    /\ \A i \in 1..a.bsp : a.stack[i] = b.stack[i]
    /\ \A i \in 1..MaxDepth : a.stack[i].symbol = b.stack[i].symbol

OperationEnded == blast.op \in {"bind_variable", "unbind", "unbind_to_here"}

\* C37: a bind_variable, unbind or unbind_to_here that a handler with a
\* balanced bind_variable/unbind pair interrupted between two of its
\* statements ends with the symbol values, the records and the binding
\* stack pointer of the same call run without interruption.
C37_InterruptedOutcomeSame ==
    OperationEnded => SameOutcome(blast.got, blast.expect)

\* A bind_variable has ended that was interrupted after it had read the
\* binding stack pointer and before it moved it: the handler used the very
\* record the bind_variable then wrote.
C37_Witness ==
    /\ blast.op = "bind_variable"
    /\ blast.at = "bv_SetBSP"
    /\ blast.got.bsp > 0
    /\ SameOutcome(blast.got, blast.expect)

\* Not claimed: the free record above the binding stack pointer keeps the
\* value the handler saved in it (violated: reached after an interrupted unbind).
C37_FreeRecordsSame ==
    OperationEnded => blast.got.stack = blast.expect.stack


(***************************************************************************)
(*                 Properties of the forwarding test                       *)
(***************************************************************************)

\* The object at o has been copied by this collection.
AlreadyTransported(o) == \E i \in 1..Len(gc.log) : gc.log[i][1] = o

PointsIntoNewSpace(w) == is_lisp_pointer(w) /\ new_space_p(gc, w)

\* C38: between the steps of a collection, the first word of a from-space
\* object is a pointer into new space exactly when the object has been
\* transported, and forwarding_pointer_p holds of no untransported object
\* (the heaps collected have no pointer from from space into new space at
\* the start).
C38_ForwardedIffTransported ==
    ~gc.lose =>
        \A o \in Objects :
            /\ PointsIntoNewSpace(gc.mem[o]) <=> AlreadyTransported(o)
            /\ forwarding_pointer_p(gc, o) => AlreadyTransported(o)

\* One cons has been transported and forwarded; the other has not, and its
\* first word is a pointer (to the transported cons, in from space).
C38_Witness ==
    /\ ~gc.lose
    /\ AlreadyTransported(cons_A)
    /\ forwarding_pointer_p(gc, cons_A)
    /\ ~AlreadyTransported(cons_B)
    /\ gc.mem[cons_B] = pA
    /\ ~forwarding_pointer_p(gc, cons_B)


(***************************************************************************)
(*                 Properties of the work put off                          *)
(***************************************************************************)

PurifyReturns == pur.pc = "done" /\ ~pur.lose

QueuedWords(r) ==
    IF r.count > LATERMAXCOUNT
    THEN LATERMAXCOUNT * ((r.count - 1) \div LATERMAXCOUNT)
    ELSE r.count

\* What the code does ensure: the words pscav_later queued are scavenged
\* exactly once, the words it left over never, no slot is read that was not
\* written, and purify leaves the loop only with no later block queued and
\* static space scanned up to static_free.
C39_QueuedWordsScavengedOnce ==
    /\ ~pur.lose
    /\ pur.pc = "done" =>
          /\ pur.later_blocks = <<>>
          /\ pur.clean = pur.static_free
          /\ \A k \in 1..Len(pur.handed) :
                LET r == pur.handed[k]
                IN \A w \in r.where..(r.where + r.count - 1) :
                      pur.scavenged[w] = IF w < r.where + QueuedWords(r) THEN 1 ELSE 0

\* purify has returned after a range of LATERMAXCOUNT + 1 words was handed
\* over: its last word was never scavenged (reached).
C39_LastWordLeftOver ==
    /\ PurifyReturns
    /\ \E k \in 1..Len(pur.handed) :
          /\ pur.handed[k].count = LATERMAXCOUNT + 1
          /\ pur.scavenged[pur.handed[k].where + LATERMAXCOUNT] = 0


(***************************************************************************)
(*                 Properties of the cursor of scavenge                    *)
(***************************************************************************)

RangeScavenged == gphase = "range" /\ glast.op = "scavenge"
RangeEnd == glast.start + glast.n * N_WORD_BYTES
LastRound == glast.rounds[Len(glast.rounds)]

\* C40: over a range of whole objects and single words the assertion
\* object_ptr == end holds, every round of the loop reads a word of the
\* range and gets a count that stays within it, the next round begins that
\* many words on, no round begins on a raw word inside an object, and the
\* last round ends on start + n.
C40_CursorLandsOnEnd ==
    RangeScavenged =>
        /\ ~gc.lose
        /\ Len(glast.rounds) > 0
        /\ glast.rounds[1].at = glast.start
        /\ \A i \in DOMAIN glast.rounds :
              /\ glast.rounds[i].at >= glast.start
              /\ glast.rounds[i].at < RangeEnd
              /\ glast.rounds[i].n >= 1
              /\ glast.rounds[i].at + glast.rounds[i].n * N_WORD_BYTES <= RangeEnd
              /\ glast.pre.mem[glast.rounds[i].at] # RawWord
              /\ i < Len(glast.rounds) =>
                    glast.rounds[i + 1].at =
                        glast.rounds[i].at + glast.rounds[i].n * N_WORD_BYTES
        /\ LastRound.at + LastRound.n * N_WORD_BYTES = RangeEnd

\* The range began with an instance of two slots, the second one raw:
\* scav_instance returned 3, the padding word was scavenged on its own, and
\* the cursor ended on start + n after the objects that followed.
C40_Witness ==
    /\ RangeScavenged
    /\ ~gc.lose
    /\ Len(glast.objs) = 3
    /\ glast.objs[1] = [kind |-> "instance", n |-> 2, layout |-> TRUE]
    /\ glast.pre.mem[glast.start + 2 * N_WORD_BYTES] = RawWord
    /\ glast.rounds[1].n = 3
    /\ glast.rounds[2].n = 1
    /\ LastRound.at + LastRound.n * N_WORD_BYTES = RangeEnd

====
